---- MODULE Spec2Model ----
(***************************************************************************)
(* A model of the VYRN transpiler front end.                               *)
(*                                                                         *)
(*  - the code generator of src/backend/parser/code_generator.cpp, driven  *)
(*    statement by statement as main's loop drives it (SpecGen);           *)
(*  - the tree-walking evaluator of src/ast.hpp (SpecEval);                *)
(*  - the Parser of src/backend/parser/ast_parser.hpp on declarations,     *)
(*    with its eager boolean folding and its arithmetic folding, followed  *)
(*    by the code generator as in main's loop (SpecParse);                 *)
(*  - the evaluator on binary operations of every operator (SpecBinary);   *)
(*  - the Lexer of src/lexer.cpp and the Parser of src/parser.cpp, whose   *)
(*    programs the evaluator runs (SpecPath);                              *)
(*  - the Lexer of ast_parser.hpp on characters (SpecLex, SpecLexFair);    *)
(*  - main's loop over the instructions of one input file (SpecBatch), and  *)
(*    its body on one log or assignment instruction (SpecStatement);       *)
(*  - Parser::parse of src/parser.cpp on expression statements            *)
(*    (SpecLadder) and, turn by turn of its loop, on sources that stop     *)
(*    anywhere (SpecParseLoop).                                            *)
(*                                                                         *)
(* A text (a token's value, a node's value, an emitted line) is a sequence *)
(* of pieces: a number and the content of a string literal have one piece  *)
(* per character, every other token (identifier, keyword, operator,        *)
(* symbol) and every fixed text the program writes is one piece. Text(t)   *)
(* is the string the pieces make.                                          *)
(***************************************************************************)
EXTENDS Integers, Sequences, FiniteSets, TLC

VARIABLES
    symbol_table,        \* CodeGenerator::symbol_table
    out,                 \* CodeGenerator::out after the last generate()
    parts,               \* the nodes main's loop has handed to generate(), in order
    all_generated_code,  \* what main appended for each of them
    env,                 \* the Environment handed to eval
    eval_node,           \* the node of the last eval call
    eval_result,         \* what that call returned, or the error it raised
    tokens,              \* the tokens the Parser's Lexer yields for one instruction
    parse_result,        \* what the Parser's parse_* call returned, or the error it raised
    source_code,         \* the text handed to the Lexer of src/lexer.cpp
    token_vector,        \* what Lexer::tokenize returned for it
    program,             \* what Parser::parse returned for that vector
    evaluated,           \* how many statements of the program eval has been called on
    parser,              \* Parser::pos and parse()'s declarations, turn by turn of its loop
    input,               \* Lexer::input of ast_parser.hpp
    lexer,               \* that Lexer's pos, line and column
    token,               \* what its last next_token() call returned
    calls,               \* how many next_token() calls have been made
    instructions,        \* main's parts: the instructions of one input file
    handled,             \* how many of them main's loop has been through
    aborted              \* an exception has ended main's loop

genVars == <<symbol_table, out, parts, all_generated_code>>

evalVars == <<env, eval_node, eval_result>>

parseVars == <<tokens, parse_result>>

pathVars == <<source_code, token_vector, program, evaluated, parser>>

lexVars == <<input, lexer, token, calls>>

batchVars == <<instructions, handled, aborted>>

vars == <<symbol_table, out, parts, all_generated_code, env, eval_node, eval_result,
          tokens, parse_result, source_code, token_vector, program, evaluated, parser,
          input, lexer, token, calls, instructions, handled, aborted>>

-----------------------------------------------------------------------------
(* Bounds *)

\* statements handed to one CodeGenerator
MaxStmts == 3

\* the evaluator's integers stay within -MaxAbsInt..MaxAbsInt
MaxAbsInt == 4

-----------------------------------------------------------------------------
(* Helpers on texts *)

RECURSIVE Text(_)
Text(pieces) ==
    IF pieces = <<>> THEN "" ELSE Head(pieces) \o Text(Tail(pieces))

-----------------------------------------------------------------------------
(* AST nodes of ast_parser.hpp *)

NullNode == [node |-> "null"]

LiteralNode(type, value, is_reference) ==
    [node |-> "Literal", type |-> type, value |-> value, is_reference |-> is_reference]

IntNode(value) == LiteralNode("int", value, FALSE)

FloatNode(value) == LiteralNode("float", value, FALSE)

StringNode(value) == LiteralNode("string", value, FALSE)

BoolNode(value) == LiteralNode("bool", value, FALSE)

DeclarationNode(is_const, type, name, value, is_reference) ==
    [node |-> "Declaration", is_const |-> is_const, type |-> type, name |-> name,
     value |-> value, is_reference |-> is_reference]

\* AssignNode(target, source, is_reference): expr is null
AssignNode(target, source, is_reference) ==
    [node |-> "Assign", target_variable |-> target, source_variable |-> source,
     is_reference |-> is_reference, expr |-> NullNode]

\* AssignNode(target, expr): source is "", is_reference false
AssignExprNode(target, expr) ==
    [node |-> "Assign", target_variable |-> target, source_variable |-> <<>>,
     is_reference |-> FALSE, expr |-> expr]

\* LogNode(var_name)
LogVarNode(var_name) ==
    [node |-> "Log", value |-> NullNode, variable_name |-> var_name, is_variable |-> TRUE]

\* LogNode(value)
LogNode(value) ==
    [node |-> "Log", value |-> value, variable_name |-> "", is_variable |-> FALSE]

-----------------------------------------------------------------------------
(* The code generator *)

VARIABLE_KIND == "VARIABLE"

CONSTANT_KIND == "CONSTANT"

NoSymbol == [kind |-> "none"]

SymbolInfo(types, value, is_reference, kind) ==
    [types |-> types, value |-> value, is_reference |-> is_reference, kind |-> kind]

indent(level) == [i \in 1..level |-> "    "]

is_declared(st, name, is_const) ==
    IF st[name] # NoSymbol
    THEN (is_const /\ st[name].kind = CONSTANT_KIND)
         \/ (~is_const /\ st[name].kind = VARIABLE_KIND)
    ELSE FALSE

is_const(st, name) ==
    IF st[name] # NoSymbol THEN st[name].kind = CONSTANT_KIND ELSE FALSE

\* std::replace(val.begin(), val.end(), ',', '.')
ReplaceComma(value) ==
    [i \in 1..Len(value) |-> IF value[i] = "," THEN "." ELSE value[i]]

\* _node->source_variable.find('"') != std::string::npos
ContainsQuote(value) == \E i \in 1..Len(value) : value[i] = "\""

format_literal(lit) ==
    IF lit.type = "string" /\ ~lit.is_reference THEN <<"\"">> \o lit.value \o <<"\"">>
    ELSE IF lit.type = "bool" THEN (IF lit.value = <<"true">> THEN <<"true">> ELSE <<"false">>)
    ELSE IF lit.type = "float" THEN ReplaceComma(lit.value)
    ELSE lit.value

convert_type(original_type) ==
    IF original_type = "string" THEN "std::string" ELSE original_type

\* generate_assign without the `!declared` branch: symbol_table[target] then
\* default-constructs the missing entry
generate_assign_unchecked(st, n, level) ==
    IF is_const(st, n.target_variable)
    THEN [st  |-> st,
          out |-> indent(level) \o
                  <<"// Error: cannot assign to constant '", n.target_variable, "'\n">>]
    ELSE
      LET st2 == IF st[n.target_variable] = NoSymbol
                 THEN [st EXCEPT ![n.target_variable] =
                          SymbolInfo("", <<>>, FALSE, VARIABLE_KIND)]
                 ELSE st
          rhs == IF n.expr # NullNode THEN format_literal(n.expr)
                 ELSE IF n.is_reference THEN n.source_variable
                 ELSE IF st2[n.target_variable].types = "string"
                      THEN <<"\"">> \o n.source_variable \o <<"\"">>
                      ELSE n.source_variable
      IN [st  |-> st2,
          out |-> indent(level) \o <<n.target_variable, " = ">> \o rhs \o <<";\n">>]

generate_assign(st, n, level) ==
    LET declared == is_declared(st, n.target_variable, FALSE) IN
    IF ~declared
    THEN [st  |-> st,
          out |-> indent(level) \o
                  <<"// Error: variable '", n.target_variable, "' is not declared\n">>]
    ELSE IF is_const(st, n.target_variable)
    THEN [st  |-> st,
          out |-> indent(level) \o
                  <<"// Error: cannot assign to constant '", n.target_variable, "'\n">>]
    ELSE
      LET rhs ==
            IF n.expr # NullNode
            THEN (IF n.expr.node = "Literal" /\ n.expr.type = "bool"
                  THEN format_literal(n.expr)
                  ELSE <<"/* unsupported expr */">>)
            ELSE IF n.is_reference THEN n.source_variable
            ELSE IF st[n.target_variable].types = "string"
                    /\ ~ContainsQuote(n.source_variable)
                 THEN <<"\"">> \o n.source_variable \o <<"\"">>
                 ELSE format_literal(LiteralNode("", n.source_variable, FALSE))
      IN [st  |-> st,
          out |-> indent(level) \o <<n.target_variable, " = ">> \o rhs \o <<";\n">>]

\* generate_declaration storing the new SymbolInfo also when the name is declared
generate_declaration_overwrite(st, n, level, kind) ==
    LET declared == is_declared(st, n.name, n.is_const)
        st2 == [st EXCEPT ![n.name] =
                   SymbolInfo(n.type, n.value.value, n.is_reference, kind)]
        warn == IF declared
                THEN <<"// Warning: ",
                       IF kind = CONSTANT_KIND THEN "constant" ELSE "variable",
                       " '", n.name, "' already declared\n">>
                ELSE <<>>
    IN [st  |-> st2,
        out |-> indent(level) \o warn \o
                <<IF kind = CONSTANT_KIND THEN "const " ELSE "",
                  convert_type(n.type), " ", n.name, " = ">> \o n.value.value \o <<";\n">>]

generate_declaration(st, n, level, kind) ==
    LET declared == is_declared(st, n.name, n.is_const)
        st2 == IF declared THEN st
               ELSE [st EXCEPT ![n.name] =
                        SymbolInfo(n.type, n.value.value, n.is_reference, kind)]
        warn == IF declared
                THEN <<"// Warning: ",
                       IF kind = CONSTANT_KIND THEN "constant" ELSE "variable",
                       " '", n.name, "' already declared\n">>
                ELSE <<>>
        init == IF n.type = "string" /\ ~n.is_reference
                THEN <<"\"">> \o n.value.value \o <<"\"">>
                ELSE (IF n.is_reference THEN n.value.value ELSE format_literal(n.value))
    IN [st  |-> st2,
        out |-> indent(level) \o warn \o
                <<IF kind = CONSTANT_KIND THEN "const " ELSE "",
                  convert_type(n.type), " ", n.name, " = ">> \o init \o <<";\n">>]

\* generate_log testing is_declared(name) where the code tests symbol_table.count
generate_log_VariablesOnly(st, n, level) ==
    [st  |-> st,
     out |-> indent(level) \o <<"std::cout << ">> \o
             (IF n.is_variable
              THEN (IF is_declared(st, n.variable_name, FALSE)
                    THEN <<n.variable_name>>
                    ELSE <<"\"[Undefined variable: ", n.variable_name, "]\"">>)
              ELSE format_literal(n.value))
             \o <<" << std::endl;\n">>]

generate_log(st, n, level) ==
    [st  |-> st,
     out |-> indent(level) \o <<"std::cout << ">> \o
             (IF n.is_variable
              THEN (IF st[n.variable_name] # NoSymbol
                    THEN <<n.variable_name>>
                    ELSE <<"\"[Undefined variable: ", n.variable_name, "]\"">>)
              ELSE format_literal(n.value))
             \o <<" << std::endl;\n">>]

generate_node(st, n, level) ==
    IF n.node = "Declaration"
    THEN generate_declaration(st, n, level,
                              IF n.is_const THEN CONSTANT_KIND ELSE VARIABLE_KIND)
    ELSE IF n.node = "Log" THEN generate_log(st, n, level)
    ELSE IF n.node = "Assign" THEN generate_assign(st, n, level)
    ELSE [st |-> st, out |-> indent(level) \o <<"// Unknown node\n">>]

\* out.str(""); generate_node(_node, _indent_level); return out.str();
generate(st, n) == generate_node(st, n, 0)

-----------------------------------------------------------------------------
(* The nodes the Parser builds for the statements of the model *)

Names == {"x", "y"}

\* parse_value(type): the value node of a declaration of each type
DeclValues(type) ==
    CASE type = "int"    -> {IntNode(<<"(", "2", " ", "+", " ", "x", ")">>)}
      [] type = "float"  -> {FloatNode(<<"1", ",", "5">>)}
      [] type = "bool"   -> {BoolNode(<<"true">>)}
      [] type = "string" -> {StringNode(<<"A", "d", "a">>),
                             LiteralNode("string", <<"y">>, TRUE)}

\* parse_declaration(_is_const): is_reference of the node is always false
DeclNodes ==
    UNION {{DeclarationNode(c, t, n, v, FALSE) : v \in DeclValues(t)} :
             <<c, t, n>> \in BOOLEAN \X {"int", "float", "bool", "string"} \X Names}

\* parse_assign: an identifier, a Number/STRING/BOOL token, a folded boolean expression
AssignNodes ==
    {AssignNode(t, s, TRUE) : <<t, s>> \in Names \X {<<"y">>}} \cup
    {AssignNode(t, s, FALSE) :
        <<t, s>> \in Names \X {<<"2">>, <<"1", ",", "5">>, <<"A", "d", "a">>}} \cup
    {AssignExprNode(t, BoolNode(b)) : <<t, b>> \in Names \X {<<"false">>}}

\* parse_log
LogNodes ==
    {LogVarNode(n) : n \in Names} \cup
    {LogNode(v) : v \in {FloatNode(<<"1", ",", "5">>), StringNode(<<"A", "d", "a">>)}}

-----------------------------------------------------------------------------
(* main's statement loop: one node parsed, generated and appended *)

GenIdle ==
    /\ symbol_table = [n \in Names |-> NoSymbol]
    /\ out = <<>>
    /\ parts = <<>>
    /\ all_generated_code = <<>>

EvalIdle ==
    /\ env = <<>>
    /\ eval_node = [node |-> "null"]
    /\ eval_result = [val |-> [type |-> "none"], err |-> ""]

ParseIdle ==
    /\ tokens = <<>>
    /\ parse_result = [ok |-> FALSE, exc |-> "not parsed"]

PathIdle ==
    /\ source_code = <<>>
    /\ token_vector = <<>>
    /\ program = [node |-> "null"]
    /\ evaluated = 0
    /\ parser = [pos |-> 1, declarations |-> <<>>, done |-> FALSE]

LexIdle ==
    /\ input = <<>>
    /\ lexer = [pos |-> 1, line |-> 1, column |-> 1]
    /\ token = [type |-> "none"]
    /\ calls = 0

BatchIdle ==
    /\ instructions = <<>>
    /\ handled = 0
    /\ aborted = FALSE

GenInit == GenIdle /\ EvalIdle /\ ParseIdle /\ PathIdle /\ LexIdle /\ BatchIdle

Generate(n) ==
    /\ Len(parts) < MaxStmts
    /\ LET r == generate(symbol_table, n) IN
         /\ symbol_table' = r.st
         /\ out' = r.out
         /\ all_generated_code' = Append(all_generated_code, r.out)
    /\ parts' = Append(parts, n)
    /\ UNCHANGED <<evalVars, parseVars, pathVars, lexVars, batchVars>>

GenerateDeclaration == \E n \in DeclNodes : Generate(n)

GenerateAssign == \E n \in AssignNodes : Generate(n)

GenerateLog == \E n \in LogNodes : Generate(n)

GenNext == GenerateDeclaration \/ GenerateAssign \/ GenerateLog

SpecGen == GenInit /\ [][GenNext]_vars

-----------------------------------------------------------------------------
(* Claims on the code generator *)

IsDeclOf(n, name) == n.node = "Declaration" /\ n.name = name

IsAssignTo(n, name) == n.node = "Assign" /\ n.target_variable = name

KindOfDecl(n) == IF n.is_const THEN CONSTANT_KIND ELSE VARIABLE_KIND

\* the emitted line is `name = ...;`
IsAssignStatement(line, name) ==
    Len(line) >= 2 /\ line[1] = name /\ line[2] = " = "

\* the emitted line is one of generate_assign's two error comments, naming `name`
IsAssignError(line, name) ==
    /\ Len(line) = 3
    /\ line[1] \in {"// Error: variable '", "// Error: cannot assign to constant '"}
    /\ line[2] = name

\* the emitted line starts with the comment `// Warning: <kind> '<name>' already
\* declared`
IsWarning(line, kind, name) ==
    /\ Len(line) >= 5
    /\ SubSeq(line, 1, 5) = <<"// Warning: ", kind, " '", name, "' already declared\n">>

\* C1: each name's symbol-table entry has the kind given by the first declaration
\* of the name, whatever statements followed it.
C1_KindIsFirstDeclared ==
    \A name \in Names : \A i \in 1..Len(parts) :
        (IsDeclOf(parts[i], name) /\ \A h \in 1..(i - 1) : ~IsDeclOf(parts[h], name))
        => /\ symbol_table[name] # NoSymbol
           /\ symbol_table[name].kind = KindOfDecl(parts[i])

\* C2: once a name has been declared with const, every later assignment to it
\* emits an error comment and no `name = ...;` statement.
C2_ConstAssignAlwaysFails ==
    \A name \in Names : \A i, j \in 1..Len(parts) :
        (i < j /\ IsDeclOf(parts[i], name) /\ parts[i].is_const
               /\ IsAssignTo(parts[j], name))
        => /\ IsAssignError(all_generated_code[j], name)
           /\ ~IsAssignStatement(all_generated_code[j], name)

C6_UndeclaredAssignReported ==
    [][\A n \in AssignNodes :
          (parts' = Append(parts, n) /\ symbol_table[n.target_variable] = NoSymbol)
          => /\ out' = <<"// Error: variable '", n.target_variable,
                         "' is not declared\n">>
             /\ ~IsAssignStatement(out', n.target_variable)
             /\ symbol_table' = symbol_table]_vars

\* an assignment to an undeclared y was reported, between other statements
C6_Witness ==
    \E j \in 2..Len(parts) :
        /\ IsAssignTo(parts[j], "y")
        /\ \A h \in 1..(j - 1) : ~IsDeclOf(parts[h], "y")
        /\ symbol_table["x"] # NoSymbol
        /\ symbol_table["y"] = NoSymbol
        /\ all_generated_code[j][1] = "// Error: variable '"

-----------------------------------------------------------------------------
(* The evaluator of src/ast.hpp: values *)

\* the range of int, which std::stoi enforces
INT_MAX == 2147483647

IntValue(i) == [type |-> "INT", v |-> i]

\* a double is kept as the text std::stod converted
DoubleValue(text) == [type |-> "DOUBLE", v |-> text]

BoolValue(b) == [type |-> "BOOL", v |-> b]

StringValue(text) == [type |-> "STRING", v |-> text]

NoValue == [type |-> "none"]

\* a literal's text is the sequence of its characters
Digits == {"0", "1", "2", "3", "4", "5", "6", "7", "8", "9"}

DigitVal(c) ==
    CASE c = "0" -> 0 [] c = "1" -> 1 [] c = "2" -> 2 [] c = "3" -> 3 [] c = "4" -> 4
      [] c = "5" -> 5 [] c = "6" -> 6 [] c = "7" -> 7 [] c = "8" -> 8 [] c = "9" -> 9

IsSpace(c) == c \in {" ", "\t", "\n", "\r", "\f"}

\* first index >= i of text that holds no white space
RECURSIVE SkipSpace(_, _)
SkipSpace(text, i) ==
    IF i <= Len(text) /\ IsSpace(text[i]) THEN SkipSpace(text, i + 1) ELSE i

\* first index >= i of text that holds no digit
RECURSIVE DigitRunEnd(_, _)
DigitRunEnd(text, i) ==
    IF i <= Len(text) /\ text[i] \in Digits THEN DigitRunEnd(text, i + 1) ELSE i

\* the value of the digits text[i .. j-1], after acc
RECURSIVE DigitRunValue(_, _, _, _)
DigitRunValue(text, i, j, acc) ==
    IF i >= j THEN acc ELSE DigitRunValue(text, i + 1, j, acc * 10 + DigitVal(text[i]))

\* std::stoi(val, &idx): white space, a sign, decimal digits. ok is false where
\* stoi throws (no digit: invalid_argument; beyond int: out_of_range); idx counts
\* the characters consumed.
stoi(text) ==
    LET s == SkipSpace(text, 1)
        neg == s <= Len(text) /\ text[s] = "-"
        d == IF s <= Len(text) /\ text[s] \in {"+", "-"} THEN s + 1 ELSE s
        e == DigitRunEnd(text, d)
        mag == DigitRunValue(text, d, e, 0)
        val == IF neg THEN 0 - mag ELSE mag
    IN IF e = d THEN [ok |-> FALSE, val |-> 0, idx |-> 0]
       ELSE IF val > INT_MAX \/ val < (0 - INT_MAX) - 1 THEN [ok |-> FALSE, val |-> 0, idx |-> 0]
       ELSE [ok |-> TRUE, val |-> val, idx |-> e - 1]

\* std::stod(val, &idx) on decimal texts: white space, a sign, digits with at most
\* one `.`, an exponent when digits follow it. ok is false where stod throws.
stod(text) ==
    LET s == SkipSpace(text, 1)
        d == IF s <= Len(text) /\ text[s] \in {"+", "-"} THEN s + 1 ELSE s
        e1 == DigitRunEnd(text, d)
        hasDot == e1 <= Len(text) /\ text[e1] = "."
        e2 == IF hasDot THEN DigitRunEnd(text, e1 + 1) ELSE e1
        nDigits == (e1 - d) + (IF hasDot THEN e2 - (e1 + 1) ELSE 0)
        x == IF e2 <= Len(text) /\ text[e2] \in {"e", "E"} THEN e2 + 1 ELSE e2
        xs == IF x > e2 /\ x <= Len(text) /\ text[x] \in {"+", "-"} THEN x + 1 ELSE x
        xe == DigitRunEnd(text, xs)
        end == IF x > e2 /\ xe > xs THEN xe ELSE e2
    IN IF nDigits = 0 THEN [ok |-> FALSE, idx |-> 0]
       ELSE [ok |-> TRUE, idx |-> end - 1]

\* eval, ASTLiteral branch: true/false, then stoi, then stod, then the string
EvalLiteral(val) ==
    IF val = <<"t", "r", "u", "e">> THEN BoolValue(TRUE)
    ELSE IF val = <<"f", "a", "l", "s", "e">> THEN BoolValue(FALSE)
    ELSE IF stoi(val).ok /\ stoi(val).idx = Len(val) THEN IntValue(stoi(val).val)
    ELSE IF stod(val).ok /\ stod(val).idx = Len(val) THEN DoubleValue(val)
    ELSE StringValue(val)

\* li / ri of C++: the quotient truncated toward zero
IntDiv(li, ri) ==
    LET al == IF li < 0 THEN 0 - li ELSE li
        ar == IF ri < 0 THEN 0 - ri ELSE ri
        q == al \div ar
    IN IF (li < 0) = (ri < 0) THEN q ELSE 0 - q

-----------------------------------------------------------------------------
(* The evaluator of src/ast.hpp: nodes, environment, eval *)

ASTLiteral(value) == [node |-> "ASTLiteral", value |-> value]

ASTVariable(name) == [node |-> "ASTVariable", name |-> name]

ASTBinaryOp(op, left, right) ==
    [node |-> "ASTBinaryOp", op |-> op, left |-> left, right |-> right]

ASTUnaryOp(op, operand) == [node |-> "ASTUnaryOp", op |-> op, operand |-> operand]

ASTAssign(target, value) == [node |-> "ASTAssign", target |-> target, value |-> value]

ASTVarDecl(name, isConst, initExpr) ==
    [node |-> "ASTVarDecl", name |-> name, isConst |-> isConst, initExpr |-> initExpr]

NoVar == [isConst |-> "none"]

VariableInfo(value, isConst) == [value |-> value, isConst |-> isConst]

\* throw std::runtime_error(msg + name): env is what the call left behind
Throw(e, msg, name) == [env |-> e, val |-> NoValue, err |-> msg \o name]

Return(e, val) == [env |-> e, val |-> val, err |-> ""]

\* an int result outside the model's range (see MaxAbsInt)
OutOfModel == "out of model"

\* the ASTBinaryOp branch on two INT and one of `+`, `-`, `*`
IntArithmetic(e, op, li, ri) ==
    LET res == CASE op = "+" -> li + ri
                 [] op = "-" -> li - ri
                 [] op = "*" -> li * ri
    IN IF res > MaxAbsInt \/ res < 0 - MaxAbsInt THEN Throw(e, OutOfModel, "")
       ELSE Return(e, IntValue(res))

\* the ASTBinaryOp branch without the `ri == 0` test: the division yields 0
EvalBinary_NoZeroTest(e, op, left, right) ==
    IF left.type = "INT" /\ right.type = "INT" /\ op \in {"+", "-", "*"}
    THEN IntArithmetic(e, op, left.v, right.v)
    ELSE IF left.type = "INT" /\ right.type = "INT" /\ op = "/"
    THEN Return(e, IntValue(IF right.v = 0 THEN 0 ELSE IntDiv(left.v, right.v)))
    ELSE Throw(e, "Unsupported binary operation or type mismatch", "")

\* the ASTBinaryOp branch taking `%` on two INT as it takes `/`
EvalBinary_WithModulo(e, op, left, right) ==
    IF left.type = "INT" /\ right.type = "INT" /\ op \in {"+", "-", "*"}
    THEN IntArithmetic(e, op, left.v, right.v)
    ELSE IF left.type = "INT" /\ right.type = "INT" /\ op \in {"/", "%"}
    THEN (IF right.v = 0 THEN Throw(e, "Division by zero", "")
          ELSE Return(e, IntValue(IF op = "/" THEN IntDiv(left.v, right.v)
                                  ELSE left.v - right.v * IntDiv(left.v, right.v))))
    ELSE Throw(e, "Unsupported binary operation or type mismatch", "")

EvalBinary(e, op, left, right) ==
    IF left.type = "INT" /\ right.type = "INT"
    THEN LET li == left.v
             ri == right.v
             res == CASE op = "+" -> li + ri
                      [] op = "-" -> li - ri
                      [] op = "*" -> li * ri
                      [] OTHER -> 0
         IN IF op \in {"+", "-", "*"}
            THEN (IF res > MaxAbsInt \/ res < 0 - MaxAbsInt
                  THEN Throw(e, OutOfModel, "")
                  ELSE Return(e, IntValue(res)))
            ELSE IF op = "/"
            THEN (IF ri = 0 THEN Throw(e, "Division by zero", "")
                  ELSE Return(e, IntValue(IntDiv(li, ri))))
            ELSE Throw(e, "Unsupported binary operation or type mismatch", "")
    ELSE Throw(e, "Unsupported binary operation or type mismatch", "")

\* the ASTAssign branch without its isConst test
AssignTargetError_NoConstTest(e, name) ==
    IF e[name] = NoVar THEN "Variable not defined: " ELSE ""

\* eval, ASTAssign branch: the tests on the target, made before the value is
\* evaluated; the message of the error raised, "" when none is
AssignTargetError(e, name) ==
    IF e[name] = NoVar THEN "Variable not defined: "
    ELSE IF e[name].isConst THEN "Cannot assign to constant variable: "
    ELSE ""

RECURSIVE eval(_, _)
eval(node, e) ==
    CASE node.node = "ASTLiteral" -> Return(e, EvalLiteral(node.value))
      [] node.node = "ASTVariable" ->
            IF e[node.name] = NoVar
            THEN Throw(e, "Variable not defined: ", node.name)
            ELSE Return(e, e[node.name].value)
      [] node.node = "ASTBinaryOp" ->
            LET l == eval(node.left, e) IN
            IF l.err # "" THEN l
            ELSE LET r == eval(node.right, l.env) IN
                 IF r.err # "" THEN r
                 ELSE EvalBinary(r.env, node.op, l.val, r.val)
      [] node.node = "ASTAssign" ->
            IF node.target.node # "ASTVariable"
            THEN Throw(e, "Assignment target must be a variable", "")
            ELSE IF AssignTargetError(e, node.target.name) # ""
            THEN Throw(e, AssignTargetError(e, node.target.name), node.target.name)
            ELSE LET r == eval(node.value, e) IN
                 IF r.err # "" THEN r
                 ELSE Return([r.env EXCEPT ![node.target.name].value = r.val], r.val)
      [] node.node = "ASTVarDecl" ->
            LET r == IF node.initExpr # NullNode THEN eval(node.initExpr, e)
                     ELSE Return(e, IntValue(0))
            IN IF r.err # "" THEN r
               ELSE IF r.env[node.name] # NoVar
               THEN Throw(r.env, "Variable already declared: ", node.name)
               ELSE Return([r.env EXCEPT ![node.name] = VariableInfo(r.val, node.isConst)],
                           r.val)
      [] OTHER -> Throw(e, "Unknown AST node type", "")

-----------------------------------------------------------------------------
(* The nodes Parser::parse (src/parser.cpp) builds and eval receives *)

EnvNames == {"a", "b"}

LitTexts == {<<"0">>, <<"2">>, <<"t", "r", "u", "e">>}

Lits == {ASTLiteral(t) : t \in LitTexts}

Vars == {ASTVariable(n) : n \in EnvNames}

Operands == Lits \cup Vars

\* `a = 2`: assignement() on a variable and a primary
SimpleAssigns == {ASTAssign(v, l) : <<v, l>> \in Vars \X Lits}

\* one literal of each type of value: INT, BOOL, DOUBLE, STRING
TypedLits ==
    {ASTLiteral(t) : t \in {<<"2">>, <<"t", "r", "u", "e">>, <<"1", ".", "5">>, <<"s">>}}

\* the arithmetic operators on every pair of types
TypedBinaryOps ==
    {ASTBinaryOp(op, l, r) : <<op, l, r>> \in {"+", "-", "*", "/"} \X TypedLits \X TypedLits}

\* the other binary operators Parser builds: factor(), comparison(), equality(),
\* logic_and(), logic_or()
OtherBinaryOps ==
    {ASTBinaryOp(op, ASTLiteral(<<"2">>), r) :
        <<op, r>> \in {"%", "<", ">", "<=", ">=", "==", "!=", "&&", "||"} \X
                      {ASTLiteral(<<"2">>), ASTLiteral(<<"t", "r", "u", "e">>)}}

\* term() and factor() on two primaries; a primary that failed is a null child
BinaryOps ==
    {ASTBinaryOp(op, l, r) :
        <<op, l, r>> \in {"+", "/"} \X Operands \X
                         {ASTLiteral(<<"0">>), ASTLiteral(<<"2">>), ASTVariable("a")}} \cup
    {ASTBinaryOp("+", l, r) : <<l, r>> \in SimpleAssigns \X {ASTLiteral(<<"t", "r", "u", "e">>)}} \cup
    {ASTBinaryOp("+", ASTLiteral(<<"2">>), NullNode),
     ASTBinaryOp("%", ASTLiteral(<<"2">>), ASTLiteral(<<"2">>))}

\* variable_declaration(): `let`/`const` name = expression() ;
VarDecls ==
    {ASTVarDecl(n, c, i) :
        <<n, c, i>> \in EnvNames \X BOOLEAN \X
            (Lits \cup {NullNode} \cup SimpleAssigns \cup
             {ASTBinaryOp("/", ASTLiteral(<<"2">>), ASTLiteral(<<"0">>))})}

\* assignement(): name = assignement()
Assigns ==
    {ASTAssign(v, x) :
        <<v, x>> \in Vars \X
            (Operands \cup {NullNode} \cup SimpleAssigns \cup
             {ASTBinaryOp("+", l, ASTLiteral(<<"2">>)) : l \in Vars} \cup
             {ASTBinaryOp("/", ASTLiteral(<<"2">>), ASTLiteral(<<"0">>))})}

\* an expression statement that is no assignment
Expressions ==
    BinaryOps \cup Operands \cup {ASTUnaryOp("-", ASTLiteral(<<"2">>))}

-----------------------------------------------------------------------------
(* eval calls on one Environment *)

EvalInit ==
    /\ GenIdle
    /\ ParseIdle
    /\ PathIdle
    /\ LexIdle
    /\ BatchIdle
    /\ env = [n \in EnvNames |-> NoVar]
    /\ eval_node = NullNode
    /\ eval_result = [val |-> NoValue, err |-> ""]

Eval(n) ==
    LET r == eval(n, env) IN
    /\ r.err # OutOfModel
    /\ env' = r.env
    /\ eval_node' = n
    /\ eval_result' = [val |-> r.val, err |-> r.err]
    /\ UNCHANGED <<genVars, parseVars, pathVars, lexVars, batchVars>>

EvalVarDecl == \E n \in VarDecls : Eval(n)

EvalAssign == \E n \in Assigns : Eval(n)

EvalExpression == \E n \in Expressions : Eval(n)

EvalNext == EvalVarDecl \/ EvalAssign \/ EvalExpression

SpecEval == EvalInit /\ [][EvalNext]_vars

-----------------------------------------------------------------------------
(* Claims on the evaluator *)

IsConstIn(e, name) == e[name] # NoVar /\ e[name].isConst

\* C3: a name bound with isConst = true keeps its value and its flag over every
\* eval call; an ASTAssign to it raises "Cannot assign to constant variable"
\* and its right-hand side is not evaluated (the call changes nothing); an
\* ASTAssign to a name that is not bound raises "Variable not defined".
C3_ConstBindingIsFrozen ==
    [][/\ \A name \in EnvNames : IsConstIn(env, name) => env'[name] = env[name]
       /\ \A name \in EnvNames :
            (eval_node'.node = "ASTAssign" /\ eval_node'.target = ASTVariable(name))
            => /\ IsConstIn(env, name)
                  => /\ eval_result'.err = "Cannot assign to constant variable: " \o name
                     /\ env' = env
               /\ env[name] = NoVar
                  => /\ eval_result'.err = "Variable not defined: " \o name
                     /\ env' = env]_vars

\* the last call assigned `a = 2` to the constant b: it raised the constant's
\* error, b kept its value 0 and a, a variable holding 0, was not assigned
C3_Witness ==
    /\ eval_node = ASTAssign(ASTVariable("b"),
                             ASTAssign(ASTVariable("a"), ASTLiteral(<<"2">>)))
    /\ eval_result.err = "Cannot assign to constant variable: b"
    /\ env["b"] = VariableInfo(IntValue(0), TRUE)
    /\ env["a"] = VariableInfo(IntValue(0), FALSE)

\* C5: eval of an ASTVarDecl whose name is bound raises "Variable already
\* declared" and the binding keeps its value and its isConst flag.
C5_RedeclarationIsHardError ==
    [][\A name \in EnvNames :
          (eval_node'.node = "ASTVarDecl" /\ eval_node'.name = name /\ env[name] # NoVar)
          => /\ eval_result'.err = "Variable already declared: " \o name
             /\ env'[name] = env[name]]_vars

-----------------------------------------------------------------------------
(* The Parser of ast_parser.hpp, on the tokens its Lexer yields *)

Token(type, value) == [type |-> type, value |-> value]

\* what Lexer::next_token returns at the end of the input, call after call
EndOfFile == Token("EndOfFile", <<>>)

\* Parser::current_token after pos - 1 calls of Parser::next_token
current_token(toks, pos) == IF pos <= Len(toks) THEN toks[pos] ELSE EndOfFile

\* a call that returned val, the parser standing at pos
Ok(val, pos) == [ok |-> TRUE, val |-> val, pos |-> pos, exc |-> "", err |-> ""]

\* a call that threw
Raise(exc, err, pos) == [ok |-> FALSE, val |-> <<>>, pos |-> pos, exc |-> exc, err |-> err]

ParseError(err, pos) == Raise("ParseError", err, pos)

expect(toks, pos, type, value) ==
    LET t == current_token(toks, pos) IN
    IF t.type # type \/ (value # <<>> /\ t.value # value)
    THEN ParseError("Unexpected token: '" \o Text(t.value) \o "'", pos)
    ELSE Ok(<<>>, pos + 1)

IsSymbol(t, v) == t.type = "Symbol" /\ t.value = <<v>>

\* a call and what follows it: what follows is skipped when the call threw
Bind(r, Rest(_)) == IF ~r.ok THEN r ELSE Rest(r)

RECURSIVE expr_parse_expression(_, _)
RECURSIVE expr_parse_factor(_, _)
RECURSIVE expr_parse_primary(_, _)
RECURSIVE expr_factor_loop(_, _, _)
RECURSIVE expr_expression_loop(_, _, _)
RECURSIVE expr_factor_loop_AllOperators(_, _, _)

\* left = "(" + left + " " + op + " " + right + ")"
Parenthesized(left, op, right) ==
    <<"(">> \o left \o <<" ">> \o op \o <<" ">> \o right \o <<")">>

\* eval_expression, parse_primary
expr_parse_primary(toks, pos) ==
    LET t == current_token(toks, pos) IN
    IF IsSymbol(t, "(")
    THEN Bind(expr_parse_expression(toks, pos + 1), LAMBDA val :
         Bind(expect(toks, val.pos, "Symbol", <<")">>), LAMBDA x :
         Ok(<<"(">> \o val.val \o <<")">>, x.pos)))
    ELSE IF t.type = "Number" THEN Ok(t.value, pos + 1)
    ELSE IF t.type = "Identifier" /\ t.value = <<"sqrt">>
    THEN Bind(expect(toks, pos + 1, "Symbol", <<"(">>), LAMBDA o :
         Bind(expr_parse_expression(toks, o.pos), LAMBDA val :
         Bind(expect(toks, val.pos, "Symbol", <<")">>), LAMBDA x :
         Ok(<<"sqrt(">> \o val.val \o <<")">>, x.pos))))
    ELSE IF t.type = "Identifier" THEN Ok(t.value, pos + 1)
    ELSE IF IsSymbol(t, "-")
    THEN Bind(expr_parse_primary(toks, pos + 1), LAMBDA val :
         Ok(<<"-">> \o val.val, val.pos))
    ELSE ParseError("Expected number, variable, parenthesis or sqrt", pos)

\* parse_factor's loop taking `+` and `-` as it takes `*`, `/`, `%`: one level
expr_factor_loop_AllOperators(toks, pos, left) ==
    LET t == current_token(toks, pos) IN
    IF t.type = "Symbol" /\ t.value \in {<<"*">>, <<"/">>, <<"%">>, <<"+">>, <<"-">>}
    THEN Bind(expr_parse_primary(toks, pos + 1), LAMBDA right :
         expr_factor_loop_AllOperators(toks, right.pos,
                                       Parenthesized(left, t.value, right.val)))
    ELSE Ok(left, pos)

\* eval_expression, parse_factor: the while loop
expr_factor_loop(toks, pos, left) ==
    LET t == current_token(toks, pos) IN
    IF t.type = "Symbol" /\ t.value \in {<<"*">>, <<"/">>, <<"%">>}
    THEN Bind(expr_parse_primary(toks, pos + 1), LAMBDA right :
         expr_factor_loop(toks, right.pos, Parenthesized(left, t.value, right.val)))
    ELSE Ok(left, pos)

\* eval_expression, parse_factor
expr_parse_factor(toks, pos) ==
    Bind(expr_parse_primary(toks, pos), LAMBDA left :
    expr_factor_loop(toks, left.pos, left.val))

\* eval_expression, parse_expression: the while loop
expr_expression_loop(toks, pos, left) ==
    LET t == current_token(toks, pos) IN
    IF t.type = "Symbol" /\ t.value \in {<<"+">>, <<"-">>}
    THEN Bind(expr_parse_factor(toks, pos + 1), LAMBDA right :
         expr_expression_loop(toks, right.pos, Parenthesized(left, t.value, right.val)))
    ELSE Ok(left, pos)

\* eval_expression, parse_expression
expr_parse_expression(toks, pos) ==
    Bind(expr_parse_factor(toks, pos), LAMBDA left :
    expr_expression_loop(toks, left.pos, left.val))

eval_expression(toks, pos, expected_type) ==
    Bind(expr_parse_expression(toks, pos), LAMBDA expr :
    Ok(IF expected_type = "int" THEN IntNode(expr.val) ELSE FloatNode(expr.val),
       expr.pos))

-----------------------------------------------------------------------------
(* std::stof, as eval_bool_expression calls it *)

\* the digits of a float's significand (FLT_MANT_DIG)
FLT_MANT_DIG == 24

RECURSIVE Pow2(_)
Pow2(k) == IF k = 0 THEN 1 ELSE 2 * Pow2(k - 1)

\* how many low bits of n >= 0 do not fit a float's significand
RECURSIVE ExcessBits(_)
ExcessBits(n) == IF n < Pow2(FLT_MANT_DIG) THEN 0 ELSE 1 + ExcessBits(n \div 2)

\* the float nearest to the integer n >= 0, ties to the even significand
FloatRound(n) ==
    LET e == ExcessBits(n)
        unit == Pow2(e)
        q == n \div unit
        r == n % unit
    IN IF e = 0 THEN n
       ELSE IF 2 * r < unit THEN q * unit
       ELSE IF 2 * r > unit THEN (q + 1) * unit
       ELSE IF q % 2 = 0 THEN q * unit
       ELSE (q + 1) * unit

\* std::stof(text): white space, a sign, decimal digits, converted to float. ok is
\* false where stof throws std::invalid_argument (no digit to convert); whole is
\* false when a `.` and a nonzero fraction follow the digits.
stof(text) ==
    LET s == SkipSpace(text, 1)
        neg == s <= Len(text) /\ text[s] = "-"
        d == IF s <= Len(text) /\ text[s] \in {"+", "-"} THEN s + 1 ELSE s
        e == DigitRunEnd(text, d)
        hasDot == e <= Len(text) /\ text[e] = "."
        fe == IF hasDot THEN DigitRunEnd(text, e + 1) ELSE e
        frac == IF hasDot THEN DigitRunValue(text, e + 1, fe, 0) ELSE 0
        mag == FloatRound(DigitRunValue(text, d, e, 0))
    IN IF e = d /\ (~hasDot \/ fe = e + 1) THEN [ok |-> FALSE, whole |-> TRUE, val |-> 0]
       ELSE [ok |-> TRUE, whole |-> frac = 0, val |-> IF neg THEN 0 - mag ELSE mag]

\* a comparison of an operand with a nonzero fraction, which the model leaves out
FractionOutOfModel == "fraction out of model"

-----------------------------------------------------------------------------
(* Parser::eval_bool_expression *)

to_bool(value) == Text(value) = "true"

\* the operators parse_primary takes between two arithmetic operands
CompareOps == {<<"<">>, <<">">>, <<"<=">>, <<">=">>, <<"==">>, <<"!=">>}

\* parse_primary: left_value op right_value
Compare(op, left_value, right_value) ==
    IF op = <<"<">> THEN left_value < right_value
    ELSE IF op = <<">">> THEN left_value > right_value
    ELSE IF op = <<"<=">> THEN left_value <= right_value
    ELSE IF op = <<">=">> THEN left_value >= right_value
    ELSE IF op = <<"==">> THEN left_value = right_value
    ELSE left_value # right_value

\* parse_and: the fold of one operator of the loop
AndFold(op, left, right) ==
    IF op = <<"&&">> THEN left /\ right
    ELSE IF op = <<"!&&">> THEN ~(left /\ right)
    ELSE left

AndOps == {<<"&&">>, <<"!&&">>}

\* the operators of parse_expression's loop
ExpressionOps ==
    {<<"||">>, <<"!||">>, <<"xor">>, <<"nxor">>, <<"=>">>, <<"!=>">>,
     <<"<">>, <<">">>, <<"<=">>, <<">=">>, <<"==">>, <<"!=">>}

\* parse_expression: the fold of one operator of the loop
ExpressionFold(op, left, right) ==
    IF op = <<"||">> THEN left \/ right
    ELSE IF op = <<"!||">> THEN ~(left \/ right)
    ELSE IF op = <<"xor">> THEN left # right
    ELSE IF op = <<"nxor">> THEN left = right
    ELSE IF op = <<"==">> THEN left = right
    ELSE IF op = <<"!=">> THEN left # right
    ELSE IF op = <<"=>">> THEN (~left) \/ right
    ELSE IF op = <<"!=>">> THEN left /\ ~right
    ELSE IF op = <<"<">> THEN (~left) /\ right
    ELSE IF op = <<"<=">> THEN (~left) \/ right
    ELSE IF op = <<">">> THEN left /\ (~right)
    ELSE IF op = <<">=">> THEN left \/ (~right)
    ELSE left

RECURSIVE bool_parse_expression(_, _)
RECURSIVE bool_parse_and(_, _)
RECURSIVE bool_parse_not(_, _)
RECURSIVE bool_parse_primary(_, _)
RECURSIVE bool_and_loop(_, _, _)
RECURSIVE bool_expression_loop(_, _, _)

\* parse_primary: std::stof of both operands, then the comparison
CompareFloats(op, left_value, right_value, pos) ==
    IF ~left_value.ok \/ ~right_value.ok THEN Raise("std::invalid_argument", "stof", pos)
    ELSE IF ~left_value.whole \/ ~right_value.whole THEN Raise(FractionOutOfModel, "", pos)
    ELSE Ok(Compare(op, left_value.val, right_value.val), pos)

\* eval_bool_expression, parse_primary
bool_parse_primary(toks, pos) ==
    LET t == current_token(toks, pos) IN
    IF IsSymbol(t, "(")
    THEN Bind(bool_parse_expression(toks, pos + 1), LAMBDA val :
         Bind(expect(toks, val.pos, "Symbol", <<")">>), LAMBDA x :
         Ok(val.val, x.pos)))
    ELSE IF t.type = "BOOL" THEN Ok(to_bool(t.value), pos + 1)
    ELSE IF t.type \in {"Number", "Identifier"}
    THEN Bind(eval_expression(toks, pos, "float"), LAMBDA left :
         LET op == current_token(toks, left.pos) IN
         IF op.type \in {"Symbol", "BooleanOperator"} /\ op.value \in CompareOps
         THEN Bind(eval_expression(toks, left.pos + 1, "float"), LAMBDA right :
              CompareFloats(op.value, stof(left.val.value), stof(right.val.value),
                            right.pos))
         ELSE ParseError("unauthorized comparison operation", left.pos))
    ELSE ParseError("Expected boolean, variable or parenthesis", pos)

\* eval_bool_expression, parse_not
bool_parse_not(toks, pos) ==
    LET t == current_token(toks, pos) IN
    IF t.type = "BooleanOperator" /\ t.value = <<"!">>
    THEN Bind(bool_parse_not(toks, pos + 1), LAMBDA val : Ok(~val.val, val.pos))
    ELSE bool_parse_primary(toks, pos)

\* eval_bool_expression, parse_and: the while loop
bool_and_loop(toks, pos, left) ==
    LET t == current_token(toks, pos) IN
    IF t.type = "BooleanOperator" /\ t.value \in AndOps
    THEN Bind(bool_parse_not(toks, pos + 1), LAMBDA right :
         bool_and_loop(toks, right.pos, AndFold(t.value, left, right.val)))
    ELSE Ok(left, pos)

\* parse_and with no loop of its own: `&&` and `!&&` are left to the caller
bool_parse_and_NoLoop(toks, pos) == bool_parse_not(toks, pos)

\* eval_bool_expression, parse_and
bool_parse_and(toks, pos) ==
    Bind(bool_parse_not(toks, pos), LAMBDA left :
    bool_and_loop(toks, left.pos, left.val))

\* eval_bool_expression, parse_expression: the while loop
bool_expression_loop(toks, pos, left) ==
    LET t == current_token(toks, pos) IN
    IF t.type = "BooleanOperator" /\ t.value \in ExpressionOps
    THEN Bind(bool_parse_and(toks, pos + 1), LAMBDA right :
         bool_expression_loop(toks, right.pos,
                              ExpressionFold(t.value, left, right.val)))
    ELSE Ok(left, pos)

\* eval_bool_expression, parse_expression
bool_parse_expression(toks, pos) ==
    Bind(bool_parse_and(toks, pos), LAMBDA left :
    bool_expression_loop(toks, left.pos, left.val))

eval_bool_expression(toks, pos) ==
    Bind(bool_parse_expression(toks, pos), LAMBDA result :
    Ok(BoolNode(IF result.val THEN <<"true">> ELSE <<"false">>), result.pos))

-----------------------------------------------------------------------------
(* Parser::parse_value, Parser::parse_declaration *)

parse_value(toks, pos, type) ==
    LET t == current_token(toks, pos) IN
    IF type \in {"int", "float"}
       /\ (t.type \in {"Number", "Identifier"} \/ IsSymbol(t, "-") \/ IsSymbol(t, "("))
    THEN eval_expression(toks, pos, type)
    ELSE IF type = "bool" /\ Text(t.value) \in {"true", "false"}
    THEN Ok(BoolNode(t.value), pos + 1)
    ELSE IF type = "bool"
            /\ t.type \in {"BooleanOperator", "Symbol", "Identifier", "BOOL", "Number"}
    THEN eval_bool_expression(toks, pos)
    ELSE IF type = "string" /\ t.type = "STRING"
    THEN Ok(StringNode(t.value), pos + 1)
    ELSE IF type = "string" /\ t.type = "Identifier"
    THEN Ok(LiteralNode(type, t.value, TRUE), pos + 1)
    ELSE ParseError("Unknown type", pos)

\* the parser stands on the keyword when parse_declaration is called
parse_declaration(toks, pos, _is_const) ==
    LET type == current_token(toks, pos + 1)
        name == current_token(toks, pos + 2)
    IN IF type.type # "Type" THEN ParseError("Expected type", pos + 1)
       ELSE IF name.type # "Identifier" THEN ParseError("Expected identifier", pos + 2)
       ELSE Bind(expect(toks, pos + 3, "Symbol", <<"=">>), LAMBDA x :
            Bind(parse_value(toks, x.pos, Text(type.value)), LAMBDA value_node :
            Ok(DeclarationNode(_is_const, Text(type.value), Text(name.value),
                               value_node.val, FALSE),
               value_node.pos)))

parse_let(toks) == parse_declaration(toks, 1, FALSE)

parse_const(toks) == parse_declaration(toks, 1, TRUE)

-----------------------------------------------------------------------------
(* Parser::parse_assign, Parser::parse_log *)

\* parse_assign after `target =`
parse_assign_source(toks, pos, target) ==
    LET t == current_token(toks, pos) IN
    IF t.type = "Identifier" THEN Ok(AssignNode(target, t.value, TRUE), pos + 1)
    ELSE IF t.type \in {"Number", "STRING", "BOOL"}
    THEN Ok(AssignNode(target, t.value, FALSE), pos + 1)
    ELSE IF t.type \in {"BooleanOperator", "Symbol", "BOOL"}
    THEN Bind(eval_bool_expression(toks, pos), LAMBDA expr :
         Ok(AssignExprNode(target, expr.val), expr.pos))
    ELSE ParseError("Expected a value or variable after '='", pos)

parse_assign(toks) ==
    IF current_token(toks, 1).type # "Identifier"
    THEN ParseError("Expected target variable", 1)
    ELSE Bind(expect(toks, 2, "Symbol", <<"=">>), LAMBDA x :
         parse_assign_source(toks, x.pos, Text(current_token(toks, 1).value)))

\* value.find('.') != npos || value.find(',') != npos
HasSeparator(value) == \E i \in 1..Len(value) : value[i] \in {".", ","}

\* parse_log after `log (`
parse_log_value(toks, pos) ==
    LET t == current_token(toks, pos) IN
    IF t.type = "Identifier"
    THEN Bind(expect(toks, pos + 1, "Symbol", <<")">>), LAMBDA x :
         Ok(LogVarNode(Text(t.value)), x.pos))
    ELSE IF t.type = "Number"
    THEN \* expect(")") is called with the Number as current token, next_token() after
         Bind(expect(toks, pos, "Symbol", <<")">>), LAMBDA x :
         Ok(LogNode(IF HasSeparator(t.value) THEN FloatNode(t.value) ELSE IntNode(t.value)),
            x.pos + 1))
    ELSE IF t.type = "STRING"
    THEN Bind(expect(toks, pos + 1, "Symbol", <<")">>), LAMBDA x :
         Ok(LogNode(StringNode(t.value)), x.pos))
    ELSE IF t.type = "BOOL"
    THEN Bind(expect(toks, pos + 1, "Symbol", <<")">>), LAMBDA x :
         Ok(LogNode(BoolNode(t.value)), x.pos))
    ELSE ParseError("Invalid value for log", pos)

parse_log(toks) ==
    Bind(expect(toks, 1, "Identifier", <<"log">>), LAMBDA l :
    Bind(expect(toks, l.pos, "Symbol", <<"(">>), LAMBDA x :
    parse_log_value(toks, x.pos)))

-----------------------------------------------------------------------------
(* The tokens Lexer::next_token yields for the statements of the model *)

Kw(word) == Token("Keyword", <<word>>)

Ty(word) == Token("Type", <<word>>)

BoolTok(word) == Token("BOOL", <<word>>)

Op(op) == Token("BooleanOperator", <<op>>)

Id(word) == Token("Identifier", <<word>>)

Str(chars) == Token("STRING", chars)

Num(chars) == Token("Number", chars)

Sym(c) == Token("Symbol", <<c>>)

\* binary operators in a boolean expression
MaxBoolOps == 2

\* binary operators in an arithmetic expression
MaxArithOps == 3

\* `<keyword> <type> <name> = <body>`
Declaration(keyword, type, name, body) ==
    <<Kw(keyword), Ty(type), Id(name), Sym("=")>> \o body

BoolTokens == {BoolTok("true"), BoolTok("false")}

Bare == {<<b>> : b \in BoolTokens}

InParentheses == {<<Sym("("), b, Sym(")")>> : b \in BoolTokens}

Negated == {<<Op("!"), b>> : b \in BoolTokens}

\* the twelve binary operators of the truth table
BoolBinaryOps ==
    {Op(o[1]) : o \in AndOps \cup (ExpressionOps \ {<<"==">>, <<"!=">>})}

\* `a op b`, starting with a literal
BareBinary == {a \o <<o>> \o b : <<a, o, b>> \in Bare \X BoolBinaryOps \X Bare}

\* `(a) op !b`
NegatedRight ==
    {f \o <<o>> \o n : <<f, o, n>> \in InParentheses \X BoolBinaryOps \X Negated}

\* op1 e1 op2 e2 ...: what follows the first operand of a chain
ChainTail(ops, operands) ==
    [j \in 1..(2 * Len(ops)) |-> IF j % 2 = 1 THEN ops[(j + 1) \div 2]
                                 ELSE operands[j \div 2]]

\* s is op1 e1 op2 e2 ..., of the given operators and operands
IsChainTail(s, ops, operands) ==
    /\ Len(s) % 2 = 0
    /\ \A j \in 1..Len(s) : s[j] \in (IF j % 2 = 1 THEN ops ELSE operands)

\* `(a) op b ...` and `!a op b ...` with literals a, b, ..., or `(a) op !b`
IsBoolChain(body) ==
    \/ body \in NegatedRight
    \/ \E first \in InParentheses \cup Negated :
         /\ Len(body) > Len(first)
         /\ SubSeq(body, 1, Len(first)) = first
         /\ IsChainTail(SubSeq(body, Len(first) + 1, Len(body)), BoolBinaryOps,
                        BoolTokens)

NumTexts ==
    {<<"1">>, <<"2">>, <<"1", "0">>,
     <<"1", "6", "7", "7", "7", "2", "1", "6">>,
     <<"1", "6", "7", "7", "7", "2", "1", "7">>}

\* `m op n`
Comparisons ==
    {<<Num(m), Op(o[1]), Num(n)>> : <<m, o, n>> \in NumTexts \X CompareOps \X NumTexts}

OtherBoolBodies ==
    Bare \cup {<<Sym("(")>> \o e \o <<Sym(")")>> : e \in BareBinary} \cup
    {<<Id("a"), Op("<"), Num(<<"2">>)>>,
     <<Num(<<"1">>), Sym("+"), Num(<<"1">>), Op("<"), Num(<<"3">>)>>,
     <<Num(<<"1", ",", "5">>), Op("<"), Num(<<"2">>)>>,
     <<Num(<<"1">>), Op("<"), Sym("-"), Num(<<"2">>)>>,
     <<Num(<<"1">>), Op("<"), Num(<<"2">>), Op("&&"), BoolTok("false")>>,
     <<Id("a"), Op("&&"), BoolTok("true")>>,
     <<Sym("("), BoolTok("true")>>,
     <<Sym(")")>>,
     <<Str(<<"t", "r", "u", "e">>)>>,
     <<>>}

ArithOperands == {Num(<<"2">>), Id("a")}

ArithOps == {Sym(o) : o \in {"+", "-", "*", "/", "%"}}

\* `e op e ...` with operands 2 and a
IsArithChain(body) ==
    /\ Len(body) > 1
    /\ body[1] \in ArithOperands
    /\ IsChainTail(Tail(body), ArithOps, ArithOperands)

TwoPlusThreeTimesFour ==
    <<Num(<<"2">>), Sym("+"), Num(<<"3">>), Sym("*"), Num(<<"4">>)>>

AMinusBMinusC == <<Id("a"), Sym("-"), Id("b"), Sym("-"), Id("c")>>

OtherArithBodies ==
    {TwoPlusThreeTimesFour, AMinusBMinusC,
     <<Sym("("), Num(<<"2">>), Sym("+"), Num(<<"3">>), Sym(")"), Sym("*"), Num(<<"4">>)>>,
     <<Sym("-"), Num(<<"2">>), Sym("+"), Id("a")>>,
     <<Id("sqrt"), Sym("("), Num(<<"2">>), Sym(")")>>,
     <<Num(<<"1", ",", "5">>), Sym("*"), Num(<<"2">>)>>,
     <<Num(<<"2">>), Sym("+")>>,
     <<Sym("("), Num(<<"2">>)>>,
     <<BoolTok("true")>>}

\* statements handed to parse_let and parse_const. No identifier of the model
\* starts with `let` or `const`, so main's test on the text of the statement is the
\* test on its first token.
ParseInputs ==
    {Declaration("let", "bool", "y", e) :
        e \in BareBinary \cup NegatedRight \cup Comparisons \cup OtherBoolBodies} \cup
    {Declaration("const", "bool", "y", e) : e \in BareBinary \cup Comparisons} \cup
    {Declaration("let", t, "x", e) : <<t, e>> \in {"int", "float"} \X OtherArithBodies} \cup
    {Declaration("const", "int", "x", e) : e \in OtherArithBodies} \cup
    {Declaration(k, "string", "x", e) :
        <<k, e>> \in {"let", "const"} \X {<<Str(<<"A", "d", "a">>)>>, <<Id("y")>>,
                                          <<Num(<<"2">>)>>}} \cup
    {<<Kw("let"), Id("x"), Sym("="), Num(<<"2">>)>>,
     <<Kw("let"), Ty("int"), Sym("="), Num(<<"2">>)>>,
     <<Kw("const"), Ty("int"), Id("x"), Num(<<"2">>)>>}

-----------------------------------------------------------------------------
(* main's loop body on one declaration: parse it, then generate its code *)

NotParsed == [ok |-> FALSE, exc |-> "not parsed"]

\* `let bool y = (a) op b ...` and `let bool y = !a op b ...`, with up to
\* MaxBoolOps operators
BoolChainInput ==
    \E k \in 1..MaxBoolOps :
      \E first \in InParentheses \cup Negated, ops \in [1..k -> BoolBinaryOps],
         operands \in [1..k -> BoolTokens] :
        tokens = Declaration("let", "bool", "y", first \o ChainTail(ops, operands))

\* `let int x = e op e ...` and `let float x = e op e ...`, with up to MaxArithOps
\* operators
ArithChainInput ==
    \E k \in 1..MaxArithOps :
      \E type \in {"int", "float"}, first \in ArithOperands, ops \in [1..k -> ArithOps],
         operands \in [1..k -> ArithOperands] :
        tokens = Declaration("let", type, "x", <<first>> \o ChainTail(ops, operands))

ParseInit ==
    /\ GenIdle
    /\ EvalIdle
    /\ PathIdle
    /\ LexIdle
    /\ BatchIdle
    /\ tokens \in ParseInputs \/ BoolChainInput \/ ArithChainInput
    /\ parse_result = NotParsed

\* all_generated_code << cg.generate(node), which an exception of the parser skips
Statement(r) ==
    /\ parse_result = NotParsed
    /\ parse_result' = r
    /\ IF r.ok
       THEN LET g == generate(symbol_table, r.val) IN
              /\ symbol_table' = g.st
              /\ out' = g.out
              /\ all_generated_code' = Append(all_generated_code, g.out)
              /\ parts' = Append(parts, r.val)
       ELSE UNCHANGED genVars
    /\ UNCHANGED <<tokens, evalVars, pathVars, lexVars, batchVars>>

ParseLet == tokens[1] = Kw("let") /\ Statement(parse_let(tokens))

ParseConst == tokens[1] = Kw("const") /\ Statement(parse_const(tokens))

ParseNext == ParseLet \/ ParseConst

SpecParse == ParseInit /\ [][ParseNext]_vars

-----------------------------------------------------------------------------
(* Claims on the Parser *)

\* the statement has been through main's loop body
IsParsed == parse_result # NotParsed

\* the tokens after `<keyword> <type> <name> =`
Body == SubSeq(tokens, 5, Len(tokens))

BoolText(b) == IF b THEN <<"true">> ELSE <<"false">>

\* the documented truth table of the binary boolean operators
TruthTable(op, a, b) ==
    CASE op = "||"   -> a \/ b
      [] op = "!||"  -> ~(a \/ b)
      [] op = "&&"   -> a /\ b
      [] op = "!&&"  -> ~(a /\ b)
      [] op = "xor"  -> a # b
      [] op = "nxor" -> a = b
      [] op = "=>"   -> (~a) \/ b
      [] op = "!=>"  -> a /\ ~b
      [] op = "<"    -> (~a) /\ b
      [] op = "<="   -> (~a) \/ b
      [] op = ">"    -> a /\ ~b
      [] op = ">="   -> a \/ ~b

\* the pieces of s between the separators of seps, in order
RECURSIVE Segments(_, _, _)
Segments(s, seps, cur) ==
    IF s = <<>> THEN <<cur>>
    ELSE IF Head(s) \in seps THEN <<cur>> \o Segments(Tail(s), seps, <<>>)
    ELSE Segments(Tail(s), seps, Append(cur, Head(s)))

\* the separators of seps in s, in order
Separators(s, seps) == SelectSeq(s, LAMBDA t : t \in seps)

\* ((v1 op1 v2) op2 v3) ... by the truth table, acc standing for the first i values
RECURSIVE TableFold(_, _, _, _)
TableFold(vals, ops, acc, i) ==
    IF i > Len(ops) THEN acc
    ELSE TableFold(vals, ops, TruthTable(ops[i].value[1], acc, vals[i + 1]), i + 1)

\* the truth value of a literal, `(literal)` or `!literal`
OperandValue(operand) ==
    IF operand[1] = Op("!") THEN ~to_bool(operand[2].value)
    ELSE IF operand[1] = Sym("(") THEN to_bool(operand[2].value)
    ELSE to_bool(operand[1].value)

AndTokens == {Op("&&"), Op("!&&")}

\* a run of operands joined by `&&` and `!&&`, grouped from the left
AndRunValue(run) ==
    LET operands == Segments(run, AndTokens, <<>>)
        vals == [i \in 1..Len(operands) |-> OperandValue(operands[i])]
    IN TableFold(vals, Separators(run, AndTokens), vals[1], 1)

\* the documented reading of a flat boolean expression: the `&&`/`!&&` runs first,
\* then the other operators from the left
DocumentedBoolValue(body) ==
    LET low == BoolBinaryOps \ AndTokens
        runs == Segments(body, low, <<>>)
        vals == [i \in 1..Len(runs) |-> AndRunValue(runs[i])]
    IN TableFold(vals, Separators(body, low), vals[1], 1)

\* C7: for `let bool y = a op b` with boolean literals a and b and a binary
\* operator op of the truth table, the value node of the declaration holds the
\* table's result for a op b.
C7_BoolInitializerIsWholeExpression ==
    (IsParsed /\ tokens[1] = Kw("let") /\ tokens[2] = Ty("bool") /\ Body \in BareBinary) =>
        /\ parse_result.ok
        /\ parse_result.val.value.value =
             BoolText(TruthTable(Body[2].value[1], to_bool(Body[1].value),
                                 to_bool(Body[3].value)))

\* C8: eval_bool_expression folds every binary operator by the truth table;
\* `&&` and `!&&` bind tighter than the other binary operators, which group from
\* the left on one level, and `!` binds tighter than both.
C8_BoolFoldFollowsTruthTable ==
    (IsParsed /\ tokens[2] = Ty("bool") /\ IsBoolChain(Body)) =>
        /\ parse_result.ok
        /\ parse_result.pos = Len(tokens) + 1
        /\ parse_result.val.value = BoolNode(BoolText(DocumentedBoolValue(Body)))

\* `(true) || false && false` was folded to true: the `&&` first
C8_Witness ==
    /\ IsParsed
    /\ tokens = Declaration("let", "bool", "y",
                            <<Sym("("), BoolTok("true"), Sym(")"), Op("||"),
                              BoolTok("false"), Op("&&"), BoolTok("false")>>)
    /\ parse_result.ok
    /\ parse_result.val.value.value = <<"true">>

\* the integer a literal of digits denotes
LiteralValue(tok) == DigitRunValue(tok.value, 1, Len(tok.value) + 1, 0)

ArithmeticComparison(op, m, n) ==
    CASE op = "<"  -> m < n
      [] op = ">"  -> m > n
      [] op = "<=" -> m <= n
      [] op = ">=" -> m >= n
      [] op = "==" -> m = n
      [] op = "!=" -> m # n

\* C9: for integer literals m and n and a comparison operator op, the boolean
\* initializer `m op n` folds to the truth value of the arithmetic comparison of
\* m with n.
C9_ComparisonIsArithmetic ==
    (IsParsed /\ tokens[2] = Ty("bool") /\ Body \in Comparisons) =>
        /\ parse_result.ok
        /\ parse_result.val.value.value =
             BoolText(ArithmeticComparison(Body[2].value[1], LiteralValue(Body[1]),
                                           LiteralValue(Body[3])))

\* ((e1 op1 e2) op2 e3) ... as text, acc standing for the first i operands
RECURSIVE TextFold(_, _, _, _)
TextFold(texts, ops, acc, i) ==
    IF i > Len(ops) THEN acc
    ELSE TextFold(texts, ops,
                  <<"(">> \o acc \o <<" ", ops[i].value[1], " ">> \o texts[i + 1] \o <<")">>,
                  i + 1)

AdditiveTokens == {Sym("+"), Sym("-")}

\* a run of operands joined by `*`, `/`, `%`, grouped from the left
TermText(run) ==
    LET mult == ArithOps \ AdditiveTokens
        operands == Segments(run, mult, <<>>)
        texts == [i \in 1..Len(operands) |-> operands[i][1].value]
    IN TextFold(texts, Separators(run, mult), texts[1], 1)

\* the fully parenthesized text of a flat arithmetic expression: the `*`, `/`, `%`
\* runs first, then `+` and `-` from the left
ParenthesizedText(body) ==
    LET terms == Segments(body, AdditiveTokens, <<>>)
        texts == [i \in 1..Len(terms) |-> TermText(terms[i])]
    IN TextFold(texts, Separators(body, AdditiveTokens), texts[1], 1)

\* C10: the arithmetic initializer of an int or float declaration is folded to
\* fully parenthesized infix text, `*`, `/`, `%` binding tighter than `+`, `-` and
\* each level grouping from the left; `2 + 3 * 4` gives `(2 + (3 * 4))`,
\* `a - b - c` gives `((a - b) - c)`, and the code generator emits the text as it
\* is as the initializer of an int declaration.
C10_ArithmeticFoldIsParenthesized ==
    /\ (IsParsed /\ tokens[2] \in {Ty("int"), Ty("float")} /\ IsArithChain(Body)) =>
         /\ parse_result.ok
         /\ parse_result.pos = Len(tokens) + 1
         /\ parse_result.val.value.value = ParenthesizedText(Body)
         /\ tokens[2] = Ty("int") =>
              out = <<"", "int", " ", "x", " = ">> \o ParenthesizedText(Body) \o <<";\n">>
    /\ (IsParsed /\ tokens = Declaration("let", "int", "x", TwoPlusThreeTimesFour)) =>
         /\ parse_result.ok
         /\ Text(parse_result.val.value.value) = "(2 + (3 * 4))"
         /\ Text(out) = "int x = (2 + (3 * 4));\n"
    /\ (IsParsed /\ tokens = Declaration("let", "int", "x", AMinusBMinusC)) =>
         /\ parse_result.ok
         /\ Text(parse_result.val.value.value) = "((a - b) - c)"
         /\ Text(out) = "int x = ((a - b) - c);\n"

\* `let int x = 2 + 3 * 4` was parsed and generated as `int x = (2 + (3 * 4));`
C10_Witness ==
    /\ IsParsed
    /\ tokens = Declaration("let", "int", "x", TwoPlusThreeTimesFour)
    /\ parse_result.ok
    /\ Text(all_generated_code[1]) = "int x = (2 + (3 * 4));\n"

-----------------------------------------------------------------------------
(* eval calls on binary operations of every operator and type of operand *)

\* the binary operators on variables and INT literals
VariableBinaryOps ==
    {ASTBinaryOp(op, l, r) :
        <<op, l, r>> \in {"+", "-", "*", "/", "%", "<"} \X
                         (Vars \cup {ASTLiteral(<<"2">>)}) \X
                         (Vars \cup {ASTLiteral(<<"0">>)})}

\* `let name = <literal>` and `let name = <division>`
BinaryDecls ==
    {ASTVarDecl(n, FALSE, i) :
        <<n, i>> \in EnvNames \X
            (Lits \cup {ASTBinaryOp("/", l, ASTLiteral(<<"0">>)) :
                          l \in Vars \cup {ASTLiteral(<<"2">>)}})}

EvalBinaryDecl == \E n \in BinaryDecls : Eval(n)

EvalTypedBinary == \E n \in TypedBinaryOps : Eval(n)

EvalOtherBinary == \E n \in OtherBinaryOps : Eval(n)

EvalVariableBinary == \E n \in VariableBinaryOps : Eval(n)

BinaryNext == EvalBinaryDecl \/ EvalTypedBinary \/ EvalOtherBinary \/ EvalVariableBinary

SpecBinary == EvalInit /\ [][BinaryNext]_vars

-----------------------------------------------------------------------------
(* Claims on the evaluator's binary operations *)

\* what eval makes of the two operands of the ASTBinaryOp n, left then right
LeftOperand(n, e) == eval(n.left, e)

RightOperand(n, e) == eval(n.right, LeftOperand(n, e).env)

\* both operands of n evaluate, to values of types lt and rt
OperandsEvaluateTo(n, e, lt, rt) ==
    /\ LeftOperand(n, e).err = ""
    /\ RightOperand(n, e).err = ""
    /\ LeftOperand(n, e).val.type \in lt
    /\ RightOperand(n, e).val.type \in rt

IsIntDivisionByZero(n, e) ==
    /\ n.node = "ASTBinaryOp"
    /\ n.op = "/"
    /\ OperandsEvaluateTo(n, e, {"INT"}, {"INT"})
    /\ RightOperand(n, e).val.v = 0

\* C12: eval of a `/` whose operands evaluate to INT, the right one to 0, raises
\* "Division by zero" and returns no value, whatever the left operand; as the
\* initializer of an ASTVarDecl it leaves the declared name out of the Environment.
C12_DivisionByZeroRaises ==
    [][/\ IsIntDivisionByZero(eval_node', env)
          => /\ eval_result'.err = "Division by zero"
             /\ eval_result'.val = NoValue
       /\ (eval_node'.node = "ASTVarDecl" /\ IsIntDivisionByZero(eval_node'.initExpr, env))
          => /\ eval_result'.err = "Division by zero"
             /\ eval_result'.val = NoValue
             /\ env'[eval_node'.name] = env[eval_node'.name]]_vars

\* `let b = a / 0` with a bound to an INT raised the error and b stayed unbound
C12_Witness ==
    /\ eval_node = ASTVarDecl("b", FALSE,
                              ASTBinaryOp("/", ASTVariable("a"), ASTLiteral(<<"0">>)))
    /\ env["a"] # NoVar
    /\ env["a"].value.type = "INT"
    /\ env["b"] = NoVar
    /\ eval_result = [val |-> NoValue, err |-> "Division by zero"]

AllValueTypes == {"INT", "BOOL", "DOUBLE", "STRING"}

\* C13: an ASTBinaryOp whose operands evaluate returns a value only when both are
\* INT and the operator is `+`, `-`, `*` or `/`; with any operand BOOL, DOUBLE or
\* STRING, and with any other operator, it raises "Unsupported binary operation or
\* type mismatch" and returns nothing.
C13_BinaryOnlyOnInts ==
    [][(/\ eval_node'.node = "ASTBinaryOp"
        /\ OperandsEvaluateTo(eval_node', env, AllValueTypes, AllValueTypes))
       => LET supported == /\ OperandsEvaluateTo(eval_node', env, {"INT"}, {"INT"})
                           /\ eval_node'.op \in {"+", "-", "*", "/"}
          IN /\ eval_result'.val # NoValue => supported
             /\ ~supported
                => /\ eval_result'.err = "Unsupported binary operation or type mismatch"
                   /\ eval_result'.val = NoValue]_vars

\* `2 % 2` raised the error: two INT operands, an operator eval does not take
C13_Witness ==
    /\ eval_node = ASTBinaryOp("%", ASTLiteral(<<"2">>), ASTLiteral(<<"2">>))
    /\ eval_result = [val |-> NoValue,
                      err |-> "Unsupported binary operation or type mismatch"]

-----------------------------------------------------------------------------
(* Lexer of src/lexer.cpp. A source is the sequence of its characters; pos is *)
(* the index in it of the character to read, from 1.                         *)

Letters ==
    {"a", "b", "c", "d", "e", "f", "g", "h", "i", "j", "k", "l", "m", "n", "o", "p",
     "q", "r", "s", "t", "u", "v", "w", "x", "y", "z",
     "A", "B", "C", "D", "E", "F", "G", "H", "I", "J", "K", "L", "M", "N", "O", "P",
     "Q", "R", "S", "T", "U", "V", "W", "X", "Y", "Z"}

\* Lexer::Lexer: pos(0), line(1), column(1)
LexerStart == [pos |-> 1, line |-> 1, column |-> 1]

lex_is_at_end(src, st) == st.pos > Len(src)

lex_peek(src, st) == IF lex_is_at_end(src, st) THEN "\\0" ELSE src[st.pos]

lex_advance(src, st) ==
    [pos    |-> st.pos + 1,
     line   |-> IF lex_peek(src, st) = "\n" THEN st.line + 1 ELSE st.line,
     column |-> IF lex_peek(src, st) = "\n" THEN 1 ELSE st.column + 1]

\* while(!is_at_end() && <peek() is in chars>) advance();
RECURSIVE AdvanceWhile(_, _, _)
AdvanceWhile(src, st, chars) ==
    IF ~lex_is_at_end(src, st) /\ lex_peek(src, st) \in chars
    THEN AdvanceWhile(src, lex_advance(src, st), chars)
    ELSE st

\* while(!is_at_end() && peek() != c) advance();
RECURSIVE AdvanceUntil(_, _, _)
AdvanceUntil(src, st, c) ==
    IF ~lex_is_at_end(src, st) /\ lex_peek(src, st) # c
    THEN AdvanceUntil(src, lex_advance(src, st), c)
    ELSE st

\* Lexer::skip_white_space of lexer.cpp
RECURSIVE lex_skip_white_space(_, _)
lex_skip_white_space(src, st) ==
    IF lex_is_at_end(src, st) THEN st
    ELSE IF lex_peek(src, st) \in {" ", "\r", "\t", "\n"}
    THEN lex_skip_white_space(src, lex_advance(src, st))
    ELSE IF lex_peek(src, st) = "/" /\ st.pos + 1 <= Len(src) /\ src[st.pos + 1] = "/"
    THEN lex_skip_white_space(src, AdvanceUntil(src, st, "\n"))
    ELSE st

lex_isalpha(c) == c \in Letters \/ c = "_"

lex_isdigit(c) == c \in Digits

AlphaNumerics == Letters \cup {"_"} \cup Digits

keywords ==
    {"let", "var", "bool", "true", "false", "const", "null", "class", "self", "func",
     "return", "if", "else if", "elif", "else", "for", "while", "match", "case", "break",
     "continue"}

is_keyword(text) == Text(text) \in keywords

\* source.substr(start, pos - start)
Substr(src, start, st) == SubSeq(src, start, st.pos - 1)

\* a token and the state of the lexer after it
make_token(type, lexeme, st) ==
    [tok |-> [type |-> type, lexeme |-> lexeme, line |-> st.line,
              column |-> st.column - Len(lexeme)],
     st  |-> st]

\* Lexer::identifier, the lexer having read up to st
identifier_at(src, start, st) ==
    IF is_keyword(Substr(src, start, st)) THEN make_token("KEYWORD", Substr(src, start, st), st)
    ELSE make_token("IDENTIFIER", Substr(src, start, st), st)

identifier(src, st) == identifier_at(src, st.pos, AdvanceWhile(src, st, AlphaNumerics))

\* Lexer::number: the optional sign and the digits of the exponent
number_exponent(src, st) ==
    AdvanceWhile(src,
                 IF ~lex_is_at_end(src, st) /\ lex_peek(src, st) \in {"+", "-"}
                 THEN lex_advance(src, st) ELSE st,
                 Digits)

\* Lexer::number: from the exponent mark on
number_tail(src, st) ==
    IF ~lex_is_at_end(src, st) /\ lex_peek(src, st) \in {"e", "E", "^"}
    THEN number_exponent(src, lex_advance(src, st))
    ELSE st

\* Lexer::number: from the decimal separator on
number_fraction(src, st) ==
    IF ~lex_is_at_end(src, st) /\ lex_peek(src, st) \in {".", ","}
    THEN number_tail(src, AdvanceWhile(src, lex_advance(src, st), Digits))
    ELSE number_tail(src, st)

number_at(src, start, st) == make_token("NUMBER", Substr(src, start, st), st)

number(src, st) == number_at(src, st.pos, number_fraction(src, AdvanceWhile(src, st, Digits)))

\* Lexer::string_literal, the lexer standing at st on the closing delimiter or at
\* the end
string_literal_at(src, start, st) ==
    make_token("STRING", Substr(src, start, st),
               IF ~lex_is_at_end(src, st) THEN lex_advance(src, st) ELSE st)

string_literal(src, st, delimiter) ==
    string_literal_at(src, st.pos + 1, AdvanceUntil(src, lex_advance(src, st), delimiter))

unknown(src, st) == make_token("UNKNOWN", <<lex_peek(src, st)>>, lex_advance(src, st))

OperatorChars == {"+", "-", "*", "/", "%", "=", "<", ">", "!", "&", "|"}

SeparatorChars == {"(", ")", "{", "}", ",", ";", ":", "."}

\* tokenize: an operator of one character, or of two
operator(src, st) ==
    IF st.pos + 1 <= Len(src)
       /\ <<src[st.pos], src[st.pos + 1]>> \in
            {<<"=", "=">>, <<"!", "=">>, <<"&", "&">>, <<"|", "|">>, <<"<", "=">>,
             <<">", "=">>}
    THEN make_token("OPERATOR", <<src[st.pos], src[st.pos + 1]>>,
                    lex_advance(src, lex_advance(src, st)))
    ELSE make_token("OPERATOR", <<src[st.pos]>>, lex_advance(src, st))

\* tokenize: the token that starts at st, where a character stands that is no
\* white space
scan_token(src, st) ==
    IF lex_isalpha(lex_peek(src, st)) THEN identifier(src, st)
    ELSE IF lex_isdigit(lex_peek(src, st)) THEN number(src, st)
    ELSE IF lex_peek(src, st) \in {"\"", "'"} THEN string_literal(src, st, lex_peek(src, st))
    ELSE IF lex_peek(src, st) \in OperatorChars THEN operator(src, st)
    ELSE IF lex_peek(src, st) \in SeparatorChars
    THEN make_token("SEPARATOR", <<lex_peek(src, st)>>, lex_advance(src, st))
    ELSE unknown(src, st)

RECURSIVE tokenize_loop(_, _, _)
RECURSIVE tokenize_push(_, _, _)

\* tokens.push_back(...), then the loop again
tokenize_push(src, toks, t) == tokenize_loop(src, t.st, Append(toks, t.tok))

\* tokenize: the while loop, after skip_white_space
tokenize_scan(src, st, toks) ==
    IF lex_is_at_end(src, st)
    THEN Append(toks, [type |-> "END_OF_FILE", lexeme |-> <<>>, line |-> st.line,
                       column |-> st.column])
    ELSE tokenize_push(src, toks, scan_token(src, st))

tokenize_loop(src, st, toks) == tokenize_scan(src, lex_skip_white_space(src, st), toks)

\* Lexer::tokenize
tokenize(src) == tokenize_loop(src, LexerStart, <<>>)

-----------------------------------------------------------------------------
(* Parser of src/parser.cpp on the token vector of Lexer::tokenize. pos is the *)
(* index of the token to read, from 1. A parsing function yields the node it  *)
(* built, NullNode for nullptr, and the position it left the parser at; what  *)
(* it wrote on std::cerr is not kept.                                         *)

ASTReturn(expr) == [node |-> "ASTReturn", expr |-> expr]

ASTIf(cond, thenBranch, elseBranch) ==
    [node |-> "ASTIf", cond |-> cond, thenBranch |-> thenBranch, elseBranch |-> elseBranch]

ASTClass(className, members) ==
    [node |-> "ASTClass", className |-> className, members |-> members]

ASTFunction(funcName, params, body) ==
    [node |-> "ASTFunction", funcName |-> funcName, params |-> params, body |-> body]

ASTProgram(declarations) == [node |-> "ASTProgram", declarations |-> declarations]

peek(toks, pos) == IF pos > Len(toks) THEN toks[Len(toks)] ELSE toks[pos]

is_at_end(toks, pos) == peek(toks, pos).type = "END_OF_FILE"

\* Parser::match, which moves the parser to pos + 1 where it holds; an empty
\* lexeme stands for any
match(toks, pos, type, lexeme) ==
    /\ ~is_at_end(toks, pos)
    /\ peek(toks, pos).type = type
    /\ lexeme = "" \/ Text(peek(toks, pos).lexeme) = lexeme

\* one of several match(TokenType::OPERATOR, op) tried in turn
match_operator(toks, pos, ops) == \E op \in ops : match(toks, pos, "OPERATOR", op)

Node(node, pos) == [node |-> node, pos |-> pos]

\* return nullptr
Null(pos) == [node |-> NullNode, pos |-> pos]

\* expr = std::make_shared<ASTBinaryOp>(op, expr, right)
BinaryResult(op, expr, right) == Node(ASTBinaryOp(op, expr.node, right.node), right.pos)

UnaryResult(op, right) == Node(ASTUnaryOp(op, right.node), right.pos)

RECURSIVE declaration(_, _)
RECURSIVE statement(_, _)
RECURSIVE block(_, _, _, _)
RECURSIVE assignement(_, _)
RECURSIVE logic_or_loop(_, _)
RECURSIVE logic_and_loop(_, _)
RECURSIVE equality_loop(_, _)
RECURSIVE comparison_loop(_, _)
RECURSIVE term_loop(_, _)
RECURSIVE term_loop_AllArithmetic(_, _)
RECURSIVE factor_loop(_, _)
RECURSIVE unary(_, _)
RECURSIVE params_loop(_, _, _)

expression(toks, pos) == assignement(toks, pos)

\* primary, the parenthesised branch after expression()
primary_close(toks, expr) ==
    IF ~match(toks, expr.pos, "SEPARATOR", ")") THEN Null(expr.pos)
    ELSE Node(expr.node, expr.pos + 1)

primary(toks, pos) ==
    IF match(toks, pos, "NUMBER", "") THEN Node(ASTLiteral(toks[pos].lexeme), pos + 1)
    ELSE IF match(toks, pos, "STRING", "") THEN Node(ASTLiteral(toks[pos].lexeme), pos + 1)
    ELSE IF match(toks, pos, "KEYWORD", "true")
    THEN Node(ASTLiteral(<<"t", "r", "u", "e">>), pos + 1)
    ELSE IF match(toks, pos, "KEYWORD", "false")
    THEN Node(ASTLiteral(<<"f", "a", "l", "s", "e">>), pos + 1)
    ELSE IF match(toks, pos, "IDENTIFIER", "")
    THEN Node(ASTVariable(Text(toks[pos].lexeme)), pos + 1)
    ELSE IF match(toks, pos, "SEPARATOR", "(")
    THEN primary_close(toks, expression(toks, pos + 1))
    ELSE Null(pos)

unary(toks, pos) ==
    IF match(toks, pos, "OPERATOR", "!") THEN UnaryResult("!", unary(toks, pos + 1))
    ELSE IF match(toks, pos, "OPERATOR", "-") THEN UnaryResult("-", unary(toks, pos + 1))
    ELSE primary(toks, pos)

\* the while loop of factor(), expr being what is built so far
factor_loop(toks, expr) ==
    IF match_operator(toks, expr.pos, {"*", "/", "%"})
    THEN factor_loop(toks, BinaryResult(Text(toks[expr.pos].lexeme), expr,
                                        unary(toks, expr.pos + 1)))
    ELSE expr

factor(toks, pos) == factor_loop(toks, unary(toks, pos))

\* the loop of term() taking the operators of factor() too, each right operand
\* being a unary()
term_loop_AllArithmetic(toks, expr) ==
    IF match_operator(toks, expr.pos, {"+", "-", "*", "/", "%"})
    THEN term_loop_AllArithmetic(toks, BinaryResult(Text(toks[expr.pos].lexeme), expr,
                                                    unary(toks, expr.pos + 1)))
    ELSE expr

term_loop(toks, expr) ==
    IF match_operator(toks, expr.pos, {"+", "-"})
    THEN term_loop(toks, BinaryResult(Text(toks[expr.pos].lexeme), expr,
                                      factor(toks, expr.pos + 1)))
    ELSE expr

term(toks, pos) == term_loop(toks, factor(toks, pos))

comparison_loop(toks, expr) ==
    IF match_operator(toks, expr.pos, {"<", ">", "<=", ">="})
    THEN comparison_loop(toks, BinaryResult(Text(toks[expr.pos].lexeme), expr,
                                            term(toks, expr.pos + 1)))
    ELSE expr

comparison(toks, pos) == comparison_loop(toks, term(toks, pos))

equality_loop(toks, expr) ==
    IF match_operator(toks, expr.pos, {"==", "!="})
    THEN equality_loop(toks, BinaryResult(Text(toks[expr.pos].lexeme), expr,
                                          comparison(toks, expr.pos + 1)))
    ELSE expr

equality(toks, pos) == equality_loop(toks, comparison(toks, pos))

logic_and_loop(toks, expr) ==
    IF match(toks, expr.pos, "OPERATOR", "&&")
    THEN logic_and_loop(toks, BinaryResult("&&", expr, equality(toks, expr.pos + 1)))
    ELSE expr

logic_and(toks, pos) == logic_and_loop(toks, equality(toks, pos))

logic_or_loop(toks, expr) ==
    IF match(toks, expr.pos, "OPERATOR", "||")
    THEN logic_or_loop(toks, BinaryResult("||", expr, logic_and(toks, expr.pos + 1)))
    ELSE expr

logic_or(toks, pos) == logic_or_loop(toks, logic_and(toks, pos))

\* assignement, after `=` and the value: the target must be an ASTVariable
assignement_value(expr, value) ==
    IF expr.node.node = "ASTVariable" THEN Node(ASTAssign(expr.node, value.node), value.pos)
    ELSE Null(value.pos)

assignement_rest(toks, expr) ==
    IF match(toks, expr.pos, "OPERATOR", "=")
    THEN assignement_value(expr, assignement(toks, expr.pos + 1))
    ELSE expr

assignement(toks, pos) == assignement_rest(toks, logic_or(toks, pos))

\* statement_end with advance() where the code calls match(SEPARATOR, ";")
statement_end_Advance(toks, expr, wrap) ==
    Node(IF wrap = "return" THEN ASTReturn(expr.node) ELSE expr.node, expr.pos + 1)

\* `expression() ;` at the end of a statement: wrap is what the statement makes
\* of the expression
statement_end(toks, expr, wrap) ==
    IF ~match(toks, expr.pos, "SEPARATOR", ";") THEN Null(expr.pos)
    ELSE Node(IF wrap = "return" THEN ASTReturn(expr.node) ELSE expr.node, expr.pos + 1)

\* what a block of statements or of declarations yields
Block(ok, nodes, pos) == [ok |-> ok, nodes |-> nodes, pos |-> pos]

block_push(toks, acc, item, r) ==
    IF r.node = NullNode THEN Block(FALSE, <<>>, r.pos)
    ELSE block(toks, r.pos, Append(acc, r.node), item)

\* while(!match(SEPARATOR, "}")) { one item; if(!item) return nullptr; push_back }
block(toks, pos, acc, item) ==
    IF match(toks, pos, "SEPARATOR", "}") THEN Block(TRUE, acc, pos + 1)
    ELSE block_push(toks, acc, item,
                    IF item = "declaration" THEN declaration(toks, pos)
                    ELSE statement(toks, pos))

if_else(cond, thenBranch, e) ==
    IF ~e.ok THEN Null(e.pos) ELSE Node(ASTIf(cond, thenBranch, e.nodes), e.pos)

if_then(toks, cond, t) ==
    IF ~t.ok THEN Null(t.pos)
    ELSE IF match(toks, t.pos, "KEYWORD", "else")
    THEN (IF ~match(toks, t.pos + 1, "SEPARATOR", "{") THEN Null(t.pos + 1)
          ELSE if_else(cond, t.nodes, block(toks, t.pos + 2, <<>>, "statement")))
    ELSE Node(ASTIf(cond, t.nodes, <<>>), t.pos)

if_condition(toks, cond) ==
    IF ~match(toks, cond.pos, "SEPARATOR", ")") THEN Null(cond.pos)
    ELSE IF ~match(toks, cond.pos + 1, "SEPARATOR", "{") THEN Null(cond.pos + 1)
    ELSE if_then(toks, cond.node, block(toks, cond.pos + 2, <<>>, "statement"))

statement(toks, pos) ==
    IF match(toks, pos, "KEYWORD", "return")
    THEN statement_end(toks, expression(toks, pos + 1), "return")
    ELSE IF match(toks, pos, "KEYWORD", "if")
    THEN (IF ~match(toks, pos + 1, "SEPARATOR", "(") THEN Null(pos + 1)
          ELSE if_condition(toks, expression(toks, pos + 2)))
    ELSE statement_end(toks, expression(toks, pos), "expression")

variable_declaration_end(toks, isConst, varName, initExpr) ==
    IF ~match(toks, initExpr.pos, "SEPARATOR", ";") THEN Null(initExpr.pos)
    ELSE Node(ASTVarDecl(varName, isConst, initExpr.node), initExpr.pos + 1)

\* variable_declaration, the parser standing after `let` or `const`
variable_declaration(toks, pos) ==
    IF ~match(toks, pos, "IDENTIFIER", "") THEN Null(pos)
    ELSE IF ~match(toks, pos + 1, "OPERATOR", "=") THEN Null(pos + 1)
    ELSE variable_declaration_end(toks, Text(toks[pos - 1].lexeme) = "const",
                                  Text(toks[pos].lexeme), expression(toks, pos + 2))

class_end(className, b) ==
    IF ~b.ok THEN Null(b.pos) ELSE Node(ASTClass(className, b.nodes), b.pos)

class_declaration(toks, pos) ==
    IF ~match(toks, pos, "IDENTIFIER", "") THEN Null(pos)
    ELSE IF ~match(toks, pos + 1, "SEPARATOR", "{") THEN Null(pos + 1)
    ELSE class_end(Text(toks[pos].lexeme), block(toks, pos + 2, <<>>, "declaration"))

\* do { a parameter's name } while(match(SEPARATOR, ","))
params_loop(toks, pos, acc) ==
    IF ~match(toks, pos, "IDENTIFIER", "") THEN Block(FALSE, <<>>, pos)
    ELSE IF match(toks, pos + 1, "SEPARATOR", ",")
    THEN params_loop(toks, pos + 2, Append(acc, Text(toks[pos].lexeme)))
    ELSE Block(TRUE, Append(acc, Text(toks[pos].lexeme)), pos + 1)

function_end(funcName, params, b) ==
    IF ~b.ok THEN Null(b.pos) ELSE Node(ASTFunction(funcName, params, b.nodes), b.pos)

function_body(toks, funcName, params, pos) ==
    IF ~match(toks, pos, "SEPARATOR", "{") THEN Null(pos)
    ELSE function_end(funcName, params, block(toks, pos + 1, <<>>, "statement"))

function_params(toks, funcName, p) ==
    IF ~p.ok THEN Null(p.pos)
    ELSE IF ~match(toks, p.pos, "SEPARATOR", ")") THEN Null(p.pos)
    ELSE function_body(toks, funcName, p.nodes, p.pos + 1)

function_declaration(toks, pos) ==
    IF ~match(toks, pos, "IDENTIFIER", "") THEN Null(pos)
    ELSE IF ~match(toks, pos + 1, "SEPARATOR", "(") THEN Null(pos + 1)
    ELSE IF match(toks, pos + 2, "SEPARATOR", ")")
    THEN function_body(toks, Text(toks[pos].lexeme), <<>>, pos + 3)
    ELSE function_params(toks, Text(toks[pos].lexeme), params_loop(toks, pos + 2, <<>>))

declaration(toks, pos) ==
    IF match(toks, pos, "KEYWORD", "class") THEN class_declaration(toks, pos + 1)
    ELSE IF match(toks, pos, "KEYWORD", "func") THEN function_declaration(toks, pos + 1)
    ELSE IF match(toks, pos, "KEYWORD", "let") \/ match(toks, pos, "KEYWORD", "const")
    THEN variable_declaration(toks, pos + 1)
    ELSE statement(toks, pos)

RECURSIVE parse_loop(_, _, _)

\* Parser::parse: the loop, which a declaration that failed breaks; failed tells
\* that it ended so
parse_loop(toks, pos, declarations) ==
    IF is_at_end(toks, pos) THEN [declarations |-> declarations, failed |-> FALSE]
    ELSE IF declaration(toks, pos).node = NullNode
    THEN [declarations |-> declarations, failed |-> TRUE]
    ELSE parse_loop(toks, declaration(toks, pos).pos,
                    Append(declarations, declaration(toks, pos).node))

\* Parser::parse
parse(toks) == ASTProgram(parse_loop(toks, 1, <<>>).declarations)

-----------------------------------------------------------------------------
(* The evaluator path: a source through Lexer::tokenize, its tokens through  *)
(* Parser::parse, then eval on each statement of the program, in order, on   *)
(* an Environment that starts empty.                                         *)

\* statements a source may hold
MaxSourceStmts == 2

\* let int x = 2 + 3 * 4;
LetIntX ==
    <<"l", "e", "t", " ", "i", "n", "t", " ", "x", " ", "=", " ", "2", " ", "+", " ", "3",
      " ", "*", " ", "4", ";">>

SourceStatements ==
    {LetIntX,
     \* let x = 1 + 1 * 2;
     <<"l", "e", "t", " ", "x", " ", "=", " ", "1", " ", "+", " ", "1", " ", "*", " ", "2", ";">>,
     \* const y = 2;
     <<"c", "o", "n", "s", "t", " ", "y", " ", "=", " ", "2", ";">>,
     \* x = x - 1;
     <<"x", " ", "=", " ", "x", " ", "-", " ", "1", ";">>,
     \* let y 2;
     <<"l", "e", "t", " ", "y", " ", "2", ";">>,
     \* y = (2;
     <<"y", " ", "=", " ", "(", "2", ";">>,
     \* if (y) { x = 0; }
     <<"i", "f", " ", "(", "y", ")", " ", "{", " ", "x", " ", "=", " ", "0", ";", " ", "}">>}

\* the sources of k statements, one per line
RECURSIVE SourcesOf(_)
SourcesOf(k) ==
    IF k = 0 THEN {<<>>}
    ELSE {s \o <<"\n">> \o t : <<s, t>> \in SourceStatements \X SourcesOf(k - 1)}

Sources == UNION {SourcesOf(k) : k \in 1..MaxSourceStmts}

\* the names the sources use
PathNames == {"x", "y", "int"}

NotTokenized == <<>>

NotParsedYet == NullNode

\* Parser::Parser: pos(0), and parse() has not been called
ParserStart == [pos |-> 1, declarations |-> <<>>, done |-> FALSE]

PathInit ==
    /\ GenIdle
    /\ ParseIdle
    /\ LexIdle
    /\ BatchIdle
    /\ source_code \in Sources
    /\ token_vector = NotTokenized
    /\ program = NotParsedYet
    /\ evaluated = 0
    /\ parser = ParserStart
    /\ env = [n \in PathNames |-> NoVar]
    /\ eval_node = NullNode
    /\ eval_result = [val |-> NoValue, err |-> ""]

\* Lexer(source).tokenize()
Tokenize ==
    /\ token_vector = NotTokenized
    /\ token_vector' = tokenize(source_code)
    /\ UNCHANGED <<genVars, evalVars, parseVars, lexVars, batchVars, source_code, program,
                   evaluated, parser>>

\* Parser(tokens).parse()
Parse ==
    /\ token_vector # NotTokenized
    /\ program = NotParsedYet
    /\ program' = parse(token_vector)
    /\ UNCHANGED <<genVars, evalVars, parseVars, lexVars, batchVars, source_code,
                   token_vector, evaluated, parser>>

\* eval on the next statement of the program; an error eval raises ends the path
EvalStatement ==
    /\ program # NotParsedYet
    /\ evaluated < Len(program.declarations)
    /\ eval_result.err = ""
    /\ LET r == eval(program.declarations[evaluated + 1], env) IN
         /\ r.err # OutOfModel
         /\ env' = r.env
         /\ eval_node' = program.declarations[evaluated + 1]
         /\ eval_result' = [val |-> r.val, err |-> r.err]
    /\ evaluated' = evaluated + 1
    /\ UNCHANGED <<genVars, parseVars, lexVars, batchVars, source_code, token_vector,
                   program, parser>>

PathNext == Tokenize \/ Parse \/ EvalStatement

SpecPath == PathInit /\ [][PathNext]_vars

-----------------------------------------------------------------------------
(* Claims on the evaluator path *)

\* every statement of the program has been evaluated, none raising
PathDone ==
    /\ program # NotParsedYet
    /\ evaluated = Len(program.declarations)
    /\ eval_result.err = ""

\* C11: the evaluator path accepts the source `let int x = 2 + 3 * 4;` and binds x
\* to a value of type INT equal to 14.
C11_LetIntBindsX ==
    (source_code = LetIntX \o <<"\n">> /\ PathDone) =>
        /\ env["x"] # NoVar
        /\ env["x"].value = IntValue(14)

\* C20: when Parser::parse meets a statement it cannot parse, what the caller
\* receives is an error outcome, not an ASTProgram.
C20_SyntaxErrorIsRaised ==
    (program # NotParsedYet /\ parse_loop(token_vector, 1, <<>>).failed) =>
        program.node # "ASTProgram"

-----------------------------------------------------------------------------
(* The Lexer of ast_parser.hpp on the characters of its input. pos is the    *)
(* index of the character to read, from 1; a token's value is the sequence   *)
(* of its characters.                                                        *)

\* the character at pos has been read: pos, line and column after it
Count(st, c) ==
    [pos    |-> st.pos + 1,
     line   |-> IF c = "\n" THEN st.line + 1 ELSE st.line,
     column |-> IF c = "\n" THEN 1 ELSE st.column + 1]

\* pos += k, the line and the column staying as they are
Jump(st, k) == [st EXCEPT !.pos = @ + k]

\* pos += k; column += k;
OperatorStep(st, k) == [st EXCEPT !.pos = @ + k, !.column = @ + k]

\* Lexer::advance of ast_parser.hpp
advance(inp, st) == IF st.pos > Len(inp) THEN st ELSE Count(st, inp[st.pos])

\* while (pos < input.size() && input[pos] != '\n') pos++;
RECURSIVE line_comment(_, _)
line_comment(inp, st) ==
    IF st.pos <= Len(inp) /\ inp[st.pos] # "\n" THEN line_comment(inp, Jump(st, 1)) ELSE st

\* skip_white_space: the inside of a block comment and its closing `*/`
RECURSIVE block_comment(_, _)
block_comment(inp, st) ==
    IF st.pos <= Len(inp)
       /\ ~(inp[st.pos] = "*" /\ st.pos + 1 <= Len(inp) /\ inp[st.pos + 1] = "/")
    THEN block_comment(inp, Count(st, inp[st.pos]))
    ELSE IF st.pos <= Len(inp) THEN Jump(st, 2)
    ELSE st

RECURSIVE skip_white_space(_, _)
skip_white_space(inp, st) ==
    IF st.pos > Len(inp) THEN st
    ELSE IF IsSpace(inp[st.pos]) THEN skip_white_space(inp, Count(st, inp[st.pos]))
    ELSE IF inp[st.pos] = "/" /\ st.pos + 1 <= Len(inp)
    THEN (IF inp[st.pos + 1] = "/" THEN skip_white_space(inp, line_comment(inp, st))
          ELSE IF inp[st.pos + 1] = "*"
          THEN skip_white_space(inp, block_comment(inp, Jump(st, 2)))
          ELSE st)
    ELSE st

\* while (pos < input.size() && <input[pos] is in chars>) advance();
RECURSIVE advance_while(_, _, _)
advance_while(inp, st, chars) ==
    IF st.pos <= Len(inp) /\ inp[st.pos] \in chars
    THEN advance_while(inp, advance(inp, st), chars)
    ELSE st

\* while (pos < input.size() && peek() != '"') advance();
RECURSIVE advance_to_quote(_, _)
advance_to_quote(inp, st) ==
    IF st.pos <= Len(inp) /\ inp[st.pos] # "\""
    THEN advance_to_quote(inp, advance(inp, st))
    ELSE st

two_character_operations == {"&&", "||", "==", "!=", "<=", ">=", "=>"}

three_character_operations == {"!&&", "!||", "!=>"}

parser_keywords == {"let", "const"}

types == {"int", "float", "bool", "string"}

boolean_operator ==
    {"!", "||", "!||", "&&", "!&&", "==", "!=", "<", "<=", ">", ">=", "=>", "!=>", "xor",
     "nxor"}

\* {type, value, tok_line, tok_column}, at being the lexer where the token starts
TokenAt(type, value, at) ==
    [type |-> type, value |-> value, line |-> at.line, column |-> at.column]

\* the token a call returns and the lexer it leaves
Returned(tok, st) == [tok |-> tok, st |-> st]

\* input.substr(pos, k)
Ahead(inp, st, k) == SubSeq(inp, st.pos, st.pos + k - 1)

three_at(inp, st) ==
    st.pos + 2 <= Len(inp) /\ Text(Ahead(inp, st, 3)) \in three_character_operations

two_at(inp, st) ==
    st.pos + 1 <= Len(inp) /\ Text(Ahead(inp, st, 2)) \in two_character_operations

\* next_token with the two-character operators tried before the three-character
\* ones
operator_token_ShortestFirst(inp, st) ==
    IF two_at(inp, st)
    THEN Returned(TokenAt("BooleanOperator", Ahead(inp, st, 2), st), OperatorStep(st, 2))
    ELSE Returned(TokenAt("BooleanOperator", Ahead(inp, st, 3), st), OperatorStep(st, 3))

\* next_token: an operator of three characters, then one of two
operator_token(inp, st) ==
    IF three_at(inp, st)
    THEN Returned(TokenAt("BooleanOperator", Ahead(inp, st, 3), st), OperatorStep(st, 3))
    ELSE Returned(TokenAt("BooleanOperator", Ahead(inp, st, 2), st), OperatorStep(st, 2))

\* next_token: the type of a word
word_type(word) ==
    IF Text(word) \in parser_keywords THEN "Keyword"
    ELSE IF Text(word) \in types THEN "Type"
    ELSE IF Text(word) \in {"true", "false"} THEN "BOOL"
    ELSE IF Text(word) \in boolean_operator THEN "BooleanOperator"
    ELSE "Identifier"

\* next_token: a word that starts at st and ends before end
word_token(inp, st, end) ==
    Returned(TokenAt(word_type(SubSeq(inp, st.pos, end.pos - 1)),
                     SubSeq(inp, st.pos, end.pos - 1), st),
             end)

\* next_token: a string whose opening quote is at st and whose content ends
\* before end
string_token(inp, st, end) ==
    Returned(TokenAt("STRING", SubSeq(inp, st.pos + 1, end.pos - 1), st), advance(inp, end))

\* next_token: a number that starts at st and ends before end
number_end(inp, st, end) ==
    Returned(TokenAt("Number", SubSeq(inp, st.pos, end.pos - 1), st), end)

\* next_token with a number that stops before its first `.` or `,`
number_token_DigitsOnly(inp, st) == number_end(inp, st, advance_while(inp, st, Digits))

number_token(inp, st) ==
    number_end(inp, st, advance_while(inp, st, Digits \cup {",", "."}))

\* next_token with a symbol that is returned and not read
symbol_token_NotRead(inp, st) == Returned(TokenAt("Symbol", <<inp[st.pos]>>, st), st)

\* next_token: advance(); return {TokenType::Symbol, ...}
symbol_token(inp, st) == Returned(TokenAt("Symbol", <<inp[st.pos]>>, st), advance(inp, st))

\* next_token with an EndOfFile that counts one more column at each call
end_of_file_Counted(st) ==
    Returned(TokenAt("EndOfFile", <<>>, st), [st EXCEPT !.column = @ + 1])

\* next_token: if (pos >= input.size()) return {TokenType::EndOfFile, "", line, column};
end_of_file(st) == Returned(TokenAt("EndOfFile", <<>>, st), st)

\* next_token after skip_white_space()
next_token_at(inp, st) ==
    IF st.pos > Len(inp) THEN end_of_file(st)
    ELSE IF three_at(inp, st) \/ two_at(inp, st) THEN operator_token(inp, st)
    ELSE IF lex_isalpha(inp[st.pos])
    THEN word_token(inp, st, advance_while(inp, st, AlphaNumerics))
    ELSE IF inp[st.pos] = "\"" THEN string_token(inp, st, advance_to_quote(inp, advance(inp, st)))
    ELSE IF inp[st.pos] \in Digits THEN number_token(inp, st)
    ELSE IF inp[st.pos] \in {"<", ">", "!"}
    THEN Returned(TokenAt("BooleanOperator", <<inp[st.pos]>>, st), OperatorStep(st, 1))
    ELSE symbol_token(inp, st)

\* Lexer::next_token
next_token(inp, st) == next_token_at(inp, skip_white_space(inp, st))

-----------------------------------------------------------------------------
(* next_token() calls on one Lexer, as Parser::next_token and main's loop    *)
(* make them: one Lexer per input, called until it yields EndOfFile and, by  *)
(* Parser::expect after the end, again.                                      *)

\* the characters of an input
MaxInput == 5

\* the characters of an input made of operator characters
MaxOperatorInput == 4

\* the characters of an input of a Lexer that is called under fairness
MaxFairInput == 3

\* calls on one Lexer: past the end of the longest input, twice
MaxCalls == MaxInput + 2

CommentChars == {"/", "*", "\n", " ", "a"}

NumberChars == {"1", ".", ",", "a", "\""}

OperatorInputChars == {"!", "&", "|", "=", "<", ">"}

NoToken == [type |-> "none"]

\* a Lexer on an input of k characters at most, of ko when they are operator
\* characters
LexerOn(k, ko) ==
    /\ GenIdle
    /\ EvalIdle
    /\ ParseIdle
    /\ PathIdle
    /\ BatchIdle
    /\ \/ \E n \in 0..k : input \in [1..n -> CommentChars]
       \/ \E n \in 1..k : input \in [1..n -> NumberChars]
       \/ \E n \in 1..ko : input \in [1..n -> OperatorInputChars]
    /\ lexer = [pos |-> 1, line |-> 1, column |-> 1]
    /\ token = NoToken
    /\ calls = 0

LexInit == LexerOn(MaxInput, MaxOperatorInput)

LexFairInit == LexerOn(MaxFairInput, MaxFairInput)

\* current_token = lexer.next_token()
NextToken ==
    /\ calls < MaxCalls
    /\ lexer' = next_token(input, lexer).st
    /\ token' = next_token(input, lexer).tok
    /\ calls' = calls + 1
    /\ UNCHANGED <<genVars, evalVars, parseVars, pathVars, batchVars, input>>

LexNext == NextToken

SpecLex == LexInit /\ [][LexNext]_vars

\* the caller goes on calling next_token() for as long as it has calls to make
SpecLexFair == LexFairInit /\ [][LexNext]_vars /\ WF_vars(NextToken)

-----------------------------------------------------------------------------
(* Claims on the Lexer of ast_parser.hpp *)

\* a step is a call of next_token()
IsCall == calls' = calls + 1

\* the index of the first character, after lexer.pos, that is in no white space
\* and in no comment: where the token of the next call starts
Start == skip_white_space(input, lexer).pos

\* the 1-based line of the character at index i: one more than the line breaks
\* before it
LineOf(i) == 1 + Cardinality({j \in 1..(i - 1) : input[j] = "\n"})

\* the 1-based column of the character at index i: its distance to the last line
\* break before it, or to the start of the input
ColumnOf(i) ==
    i - (CHOOSE b \in 0..(i - 1) :
            /\ b = 0 \/ input[b] = "\n"
            /\ \A j \in (b + 1)..(i - 1) : input[j] # "\n")

\* C14: every token next_token returns carries the 1-based line and column of its
\* first character in the input, also after a block comment on the same line or
\* a block comment that spans several lines.
C14_TokenCarriesItsPosition ==
    [][(IsCall /\ token'.type # "EndOfFile") =>
          /\ token'.line = LineOf(Start)
          /\ token'.column = ColumnOf(Start)]_vars

TokenTypes ==
    {"Keyword", "Type", "Identifier", "Number", "STRING", "BOOL", "Symbol", "EndOfFile",
     "BooleanOperator"}

ThreeCharacterOperators == {<<"!", "&", "&">>, <<"!", "|", "|">>, <<"!", "=", ">">>}

TwoCharacterOperators ==
    {<<"&", "&">>, <<"|", "|">>, <<"=", "=">>, <<"!", "=">>, <<"<", "=">>, <<">", "=">>,
     <<"=", ">">>}

\* the input from index i on starts with one of the texts of ops, all of k
\* characters
StartsWithOneOf(i, ops, k) == i + k - 1 <= Len(input) /\ SubSeq(input, i, i + k - 1) \in ops

\* the character at index i starts a token of another class than Symbol
StartsAnotherClass(i) ==
    \/ StartsWithOneOf(i, ThreeCharacterOperators, 3)
    \/ StartsWithOneOf(i, TwoCharacterOperators, 2)
    \/ input[i] \in Letters \cup {"_"} \cup Digits \cup {"\"", "<", ">", "!"}

\* C15: next_token is total and makes progress: every call returns a token, a
\* call that returns another token than EndOfFile moves the read position on by
\* one character at least, a character that starts no other class of token is
\* returned as a Symbol of that one character, and EndOfFile is returned after
\* finitely many calls.
C15_NextTokenMakesProgress ==
    /\ [][IsCall =>
            /\ token'.type \in TokenTypes
            /\ token'.type # "EndOfFile" => lexer'.pos >= lexer.pos + 1
            /\ (Start <= Len(input) /\ ~StartsAnotherClass(Start)) =>
                  /\ token'.type = "Symbol"
                  /\ token'.value = <<input[Start]>>
                  /\ lexer'.pos = Start + 1]_vars
    /\ <>(token.type = "EndOfFile")

\* a character that starts no other class has been returned as a Symbol, after a
\* token before it
C15_Witness ==
    /\ token.type = "Symbol"
    /\ token.value = <<"=">>
    /\ calls = 2
    /\ lexer.pos = 3

\* C16: once a call has returned EndOfFile, every later call returns EndOfFile
\* with the same line and column and leaves the position of the lexer as it was,
\* also when the input ended in a string or in a block comment that is not closed.
C16_EndOfFileIsIdempotent ==
    [][(IsCall /\ token.type = "EndOfFile") => (token' = token /\ lexer' = lexer)]_vars

\* EndOfFile has been returned twice, after a string that is not closed and after
\* a block comment that is not closed
C16_Witness ==
    /\ token.type = "EndOfFile"
    /\ \/ input = <<"\"", "a">> /\ calls = 3
       \/ input = <<"/", "*", "a">> /\ calls = 2

\* C17: where the rest of the input starts with `!&&`, `!||` or `!=>`, next_token
\* returns that one BooleanOperator of three characters; otherwise, where it starts
\* with `&&`, `||`, `==`, `!=`, `<=`, `>=` or `=>`, that one BooleanOperator of two
\* characters; a lone `<`, `>` or `!` is a BooleanOperator of one character.
C17_OperatorsAreLongestMatch ==
    [][IsCall =>
          IF StartsWithOneOf(Start, ThreeCharacterOperators, 3)
          THEN /\ token'.type = "BooleanOperator"
               /\ token'.value = SubSeq(input, Start, Start + 2)
               /\ lexer'.pos = Start + 3
          ELSE IF StartsWithOneOf(Start, TwoCharacterOperators, 2)
          THEN /\ token'.type = "BooleanOperator"
               /\ token'.value = SubSeq(input, Start, Start + 1)
               /\ lexer'.pos = Start + 2
          ELSE (Start <= Len(input) /\ input[Start] \in {"<", ">", "!"}) =>
               /\ token'.type = "BooleanOperator"
               /\ token'.value = <<input[Start]>>
               /\ lexer'.pos = Start + 1]_vars

\* `!=>` has been returned as one token, before a lone `<`
C17_Witness ==
    /\ input = <<"!", "=", ">", "<">>
    /\ calls = 1
    /\ token.value = <<"!", "=", ">">>
    /\ lexer.pos = 4

\* the index after the longest run of digits, `.` and `,` that starts at index i
RunEnd(i) ==
    CHOOSE j \in i..(Len(input) + 1) :
        /\ \A k \in i..(j - 1) : input[k] \in Digits \cup {".", ","}
        /\ j = Len(input) + 1 \/ input[j] \notin Digits \cup {".", ","}

\* C18: where a digit stands at the current position, next_token returns one
\* Number token whose text is the whole run of digits, `.` and `,` that starts
\* there, and the next token starts at the first character after the run.
C18_NumberIsWholeRun ==
    [][(IsCall /\ Start <= Len(input) /\ input[Start] \in Digits) =>
          /\ token'.type = "Number"
          /\ token'.value = SubSeq(input, Start, RunEnd(Start) - 1)
          /\ lexer'.pos = RunEnd(Start)]_vars

\* a run with both separators has been returned as one Number, a word after it
C18_Witness ==
    /\ input = <<"1", ".", "1", ",", "a">>
    /\ calls = 1
    /\ token.type = "Number"
    /\ token.value = <<"1", ".", "1", ",">>
    /\ lexer.pos = 5

-----------------------------------------------------------------------------
(* main's loop over the instructions of one input file: each is parsed by a  *)
(* Parser of its own and, when that raised nothing, handed to generate().    *)
(* A ParseError is caught inside the loop; any other exception leaves it and *)
(* is caught at the end of main.                                             *)

\* the instructions of an input file
MaxBatch == 3

BatchInstructions ==
    {Declaration("let", "int", "x", <<Num(<<"2">>)>>),
     Declaration("let", "int", "x", <<Num(<<"1">>)>>),
     Declaration("const", "bool", "y", <<BoolTok("true")>>),
     Declaration("let", "string", "y", <<Id("x")>>),
     \* ParseError: no type, no name, no `=`, an initializer of another type
     <<Kw("let"), Id("x"), Sym("="), Num(<<"2">>)>>,
     <<Kw("let"), Ty("int"), Sym("="), Num(<<"2">>)>>,
     <<Kw("const"), Ty("int"), Id("x"), Num(<<"2">>)>>,
     Declaration("const", "int", "y", <<BoolTok("true")>>),
     \* std::invalid_argument, out of std::stof
     Declaration("let", "bool", "y", <<Id("a"), Op("<"), Num(<<"2">>)>>),
     \* no `let`, no `const`, no `log`, no `=`
     <<Id("x")>>}

BatchInit ==
    /\ GenIdle
    /\ EvalIdle
    /\ ParseIdle
    /\ PathIdle
    /\ LexIdle
    /\ \E n \in 1..MaxBatch : instructions \in [1..n -> BatchInstructions]
    /\ handled = 0
    /\ aborted = FALSE

\* "Unknown declaration", written to error_output before `continue`
UnknownDeclaration == [ok |-> FALSE, exc |-> "", err |-> "Unknown declaration"]

\* instruction.find("=") != npos, on the tokens of the instruction: `=` alone is a
\* Symbol, and the operators with a `=` are ==, !=, <=, >=, =>, !=>
HasEquals(toks) ==
    \E i \in 1..Len(toks) :
        toks[i].value \in {<<"=">>, <<"==">>, <<"!=">>, <<"<=">>, <<">=">>, <<"=>">>, <<"!=>">>}

\* the try block of the loop's body on one instruction: the call of the parser
\* the text of the instruction selects, and what it returned or threw
parse_instruction(toks) ==
    IF toks[1] = Kw("let") THEN parse_let(toks)
    ELSE IF toks[1] = Kw("const") THEN parse_const(toks)
    ELSE IF toks[1] = Id("log") THEN parse_log(toks)
    ELSE IF HasEquals(toks) THEN parse_assign(toks)
    ELSE UnknownDeclaration

\* the loop's body with its catch (const ParseError&) around the whole loop
LeavesLoop_OnAnyException(r) == ~r.ok /\ r.exc # ""

\* the loop's body: an exception that is no ParseError is not caught in the loop
LeavesLoop(r) == ~r.ok /\ r.exc \notin {"", "ParseError"}

\* one turn of the loop on the next instruction
Handle(toks, r) ==
    /\ r.exc # FractionOutOfModel
    /\ tokens' = toks
    /\ parse_result' = r
    /\ IF r.ok
       THEN LET g == generate(symbol_table, r.val) IN
              /\ symbol_table' = g.st
              /\ out' = g.out
              /\ all_generated_code' = Append(all_generated_code, g.out)
              /\ parts' = Append(parts, r.val)
       ELSE UNCHANGED genVars
    /\ handled' = handled + 1
    /\ aborted' = LeavesLoop(r)
    /\ UNCHANGED <<evalVars, pathVars, lexVars, instructions>>

NextInstruction ==
    /\ ~aborted
    /\ handled < Len(instructions)
    /\ Handle(instructions[handled + 1], parse_instruction(instructions[handled + 1]))

BatchNext == NextInstruction

SpecBatch == BatchInit /\ [][BatchNext]_vars

-----------------------------------------------------------------------------
(* Claims on main's loop *)

RaisesParseError(toks) == parse_instruction(toks).exc = "ParseError"

\* the instructions main's loop has been through, and those of them that raised
\* no ParseError
Handled == SubSeq(instructions, 1, handled)

WithoutParseErrors(batch) == SelectSeq(batch, LAMBDA toks : ~RaisesParseError(toks))

\* the symbol table and the code after a batch none of whose instructions raises:
\* generate() on each node in turn, `Unknown declaration` skipped
RECURSIVE CodeOf(_, _, _)
CodeOf(batch, table, code) ==
    IF batch = <<>> THEN <<table, code>>
    ELSE IF ~parse_instruction(Head(batch)).ok THEN CodeOf(Tail(batch), table, code)
    ELSE CodeOf(Tail(batch),
                generate(table, parse_instruction(Head(batch)).val).st,
                Append(code, generate(table, parse_instruction(Head(batch)).val).out))

\* C19: an instruction whose parsing raises ParseError does not end the loop:
\* the instructions after it are parsed and generated, and the symbol table and
\* the generated code are those of the batch without the failing instructions.
C19_ParseErrorIsIsolated ==
    /\ (handled > 0 /\ RaisesParseError(instructions[handled])) => ~aborted
    /\ ~aborted =>
          <<symbol_table, all_generated_code>> =
              CodeOf(WithoutParseErrors(Handled), [n \in Names |-> NoSymbol], <<>>)

\* a batch of three whose second instruction raised ParseError and whose third
\* has been generated
C19_Witness ==
    /\ handled = 3
    /\ ~aborted
    /\ RaisesParseError(instructions[2])
    /\ parse_result.ok
    /\ Len(parts) = 2
    /\ symbol_table["x"] # NoSymbol

-----------------------------------------------------------------------------
(* Further claims on the code generator *)

Ada == <<"A", "d", "a">>

\* C21: a fresh CodeGenerator given `let string N = "Ada"` then `log(N)` emits
\* `std::string N = "Ada";` then `std::cout << N << std::endl;` and no comment; and
\* every log(N) emits the identifier N when N has a symbol-table entry at that
\* point, the quoted placeholder `[Undefined variable: N]` when it has none.
C21_LogFollowsSymbolTable ==
    /\ [](\A n \in Names :
            (/\ Len(parts) >= 2
             /\ parts[1] = DeclarationNode(FALSE, "string", n, StringNode(Ada), FALSE)
             /\ parts[2] = LogVarNode(n))
            => /\ Text(all_generated_code[1]) = "std::string " \o n \o " = \"Ada\";\n"
               /\ Text(all_generated_code[2]) = "std::cout << " \o n \o " << std::endl;\n")
    /\ [][\A n \in Names :
            parts' = Append(parts, LogVarNode(n))
            => Text(out') =
                 IF symbol_table[n] # NoSymbol
                 THEN "std::cout << " \o n \o " << std::endl;\n"
                 ELSE "std::cout << \"[Undefined variable: " \o n \o "]\" << std::endl;\n"]_vars

\* `let string x = "Ada"; log(x);` was generated, and so were a log of a constant
\* and a log of a name without entry
C21_Witness ==
    /\ Len(parts) = 3
    /\ parts[1] = DeclarationNode(TRUE, "string", "x", StringNode(Ada), FALSE)
    /\ parts[2] = LogVarNode("x")
    /\ parts[3] = LogVarNode("y")
    /\ Text(all_generated_code[2]) = "std::cout << x << std::endl;\n"
    /\ Text(all_generated_code[3]) = "std::cout << \"[Undefined variable: y]\" << std::endl;\n"

\* the text between ` = ` and `;` of an emitted declaration or assignment
EmittedValue(line, from) == SubSeq(line, from, Len(line) - 1)

\* the formatting the type of the receiving name directs
IsTypeDirected(type, value, text) ==
    CASE type = "string" -> text = <<"\"">> \o value \o <<"\"">>
      [] type = "bool"   -> value \in {<<"true">>, <<"false">>} => text = value
      [] type = "float"  -> /\ Len(text) = Len(value)
                            /\ \A i \in 1..Len(value) :
                                  text[i] = IF value[i] = "," THEN "." ELSE value[i]
      [] OTHER           -> text = value

\* C22: a literal is emitted as the type of the name that receives it directs, in a
\* declaration and in an assignment: in quotes for a string name, `true`/`false`
\* for a bool, verbatim for an int, with `.` for every `,` for a float name.
C22_FormattingFollowsTargetType ==
    [][/\ \A n \in DeclNodes :
            (parts' = Append(parts, n) /\ ~n.value.is_reference)
            => IsTypeDirected(n.type, n.value.value,
                              EmittedValue(out', IF is_declared(symbol_table, n.name, n.is_const)
                                                 THEN 11 ELSE 6))
       /\ \A n \in AssignNodes :
            (/\ parts' = Append(parts, n)
             /\ n.expr = NullNode /\ ~n.is_reference
             /\ IsAssignStatement(out', n.target_variable))
            => IsTypeDirected(symbol_table[n.target_variable].types, n.source_variable,
                              EmittedValue(out', 3))]_vars

-----------------------------------------------------------------------------
(* Parser::parse on expression statements: `a op b op c;` for every pair of  *)
(* operators, and `-a op b;`, `a op !b;` for every unary and binary operator, *)
(* each through Lexer::tokenize as in the evaluator path.                     *)

\* the operators of each level of the ladder, the loosest level first
Ladder ==
    <<{<<"=">>}, {<<"|", "|">>}, {<<"&", "&">>}, {<<"=", "=">>, <<"!", "=">>},
      {<<"<">>, <<">">>, <<"<", "=">>, <<">", "=">>}, {<<"+">>, <<"-">>},
      {<<"*">>, <<"/">>, <<"%">>}>>

LadderOps == UNION {Ladder[i] : i \in 1..Len(Ladder)}

BinaryLadderOps == LadderOps \ {<<"=">>}

UnaryOps == {<<"-">>, <<"!">>}

Level(op) == CHOOSE i \in 1..Len(Ladder) : op \in Ladder[i]

\* a op1 b op2 c;
Chain(op1, op2) ==
    <<"a", " ">> \o op1 \o <<" ", "b", " ">> \o op2 \o <<" ", "c", ";">>

\* u a op b;
UnaryLeft(u, op) == u \o <<"a", " ">> \o op \o <<" ", "b", ";">>

\* a op u b;
UnaryRight(op, u) == <<"a", " ">> \o op \o <<" ">> \o u \o <<"b", ";">>

LadderSources ==
    {Chain(op1, op2) : <<op1, op2>> \in LadderOps \X LadderOps} \cup
    {UnaryLeft(u, op) : <<u, op>> \in UnaryOps \X BinaryLadderOps} \cup
    {UnaryRight(op, u) : <<op, u>> \in LadderOps \X UnaryOps}

LadderInit ==
    /\ GenIdle
    /\ ParseIdle
    /\ LexIdle
    /\ BatchIdle
    /\ source_code \in LadderSources
    /\ token_vector = NotTokenized
    /\ program = NotParsedYet
    /\ evaluated = 0
    /\ parser = ParserStart
    /\ env = [n \in PathNames |-> NoVar]
    /\ eval_node = NullNode
    /\ eval_result = [val |-> NoValue, err |-> ""]

LadderNext == Tokenize \/ Parse

SpecLadder == LadderInit /\ [][LadderNext]_vars

\* the node of `l op r` where op is at its place in the tree
Nested(op, l, r) ==
    IF op = <<"=">> THEN ASTAssign(l, r) ELSE ASTBinaryOp(Text(op), l, r)

\* the tree of `a op1 b op2 c` by the ladder: the tighter operator deeper, one
\* level folding to the left, assignment to the right
LadderTree(op1, op2) ==
    IF Level(op2) > Level(op1) \/ (op1 = <<"=">> /\ op2 = <<"=">>)
    THEN Nested(op1, ASTVariable("a"), Nested(op2, ASTVariable("b"), ASTVariable("c")))
    ELSE Nested(op2, Nested(op1, ASTVariable("a"), ASTVariable("b")), ASTVariable("c"))

Parsed(src) == source_code = src /\ program # NotParsedYet

\* C23: Parser::parse nests `a op1 b op2 c` by the ladder (the tighter of two
\* operators deeper, two operators of one level to the left, two `=` to the
\* right, `=` never under a binary operator), and a unary `-` or `!` applies to
\* its operand alone, under every binary operator and under `=`.
C23_PrecedenceLadder ==
    /\ \A op1, op2 \in LadderOps :
          Parsed(Chain(op1, op2)) =>
            IF op2 = <<"=">> /\ op1 # <<"=">>
            THEN program.declarations = <<>>
            ELSE program.declarations = <<LadderTree(op1, op2)>>
    /\ \A u \in UnaryOps : \A op \in BinaryLadderOps :
          Parsed(UnaryLeft(u, op)) =>
            program.declarations =
              <<Nested(op, ASTUnaryOp(Text(u), ASTVariable("a")), ASTVariable("b"))>>
    /\ \A u \in UnaryOps : \A op \in LadderOps :
          Parsed(UnaryRight(op, u)) =>
            program.declarations =
              <<Nested(op, ASTVariable("a"), ASTUnaryOp(Text(u), ASTVariable("b")))>>

\* `a + b * c;`, `a - b - c;`, `a = b = c;` or `-a * b;` has been parsed to a statement
C23_Witness ==
    /\ \/ Parsed(Chain(<<"+">>, <<"*">>))
       \/ Parsed(Chain(<<"-">>, <<"-">>))
       \/ Parsed(Chain(<<"=">>, <<"=">>))
       \/ Parsed(UnaryLeft(<<"-">>, <<"*">>))
    /\ Len(program.declarations) = 1

-----------------------------------------------------------------------------
(* Further claims on the code generator: diagnostics and declarations *)

\* C24: an assignment whose target has a symbol-table entry of kind CONSTANT emits
\* `// Error: cannot assign to constant '<name>'`, not the comment that says the
\* variable is not declared.
C24_ConstantAssignDiagnostic ==
    [][\A n \in AssignNodes :
          (/\ parts' = Append(parts, n)
           /\ symbol_table[n.target_variable] # NoSymbol
           /\ symbol_table[n.target_variable].kind = CONSTANT_KIND)
          => Text(out') = "// Error: cannot assign to constant '" \o n.target_variable \o "'\n"]_vars

\* C25: `let string x = y` (and `const string x = y`), y an identifier, is a
\* reference to the variable y: the declaration is emitted with the initializer y
\* unquoted, `std::string x = y;`, and is recorded as a reference.
C25_StringIdentifierIsReference ==
    \A k \in {"let", "const"} :
        (tokens = Declaration(k, "string", "x", <<Id("y")>>) /\ parse_result # NotParsed)
        => /\ parse_result.ok
           /\ Text(out) = (IF k = "const" THEN "const " ELSE "") \o "std::string x = y;\n"
           /\ parts[1].is_reference
           /\ symbol_table["x"].is_reference

-----------------------------------------------------------------------------
(* main's loop body on one `log` or one assignment instruction *)

\* the tokens of a literal of each kind
LiteralTokens ==
    {Num(<<"2">>), Num(<<"1", "0">>), Num(<<"1", ".", "5">>), Num(<<"1", ",", "5">>),
     Str(Ada), Str(<<>>), BoolTok("true"), BoolTok("false")}

\* log(V)
Log(v) == <<Id("log"), Sym("(")>> \o v \o <<Sym(")")>>

\* target = E
Assign(target, e) == <<Id(target), Sym("=")>> \o e

LogInputs ==
    {Log(<<v>>) : v \in LiteralTokens \cup {Id("x"), Id("y")}} \cup
    {Log(<<>>), <<Id("log"), Sym("("), Num(<<"2">>)>>, <<Id("log"), Num(<<"2">>)>>,
     <<Id("log"), Sym("("), Id("x")>>}

AssignInputs ==
    {Assign(t, e) :
       <<t, e>> \in Names \X ({<<v>> : v \in LiteralTokens \cup {Id("y")}} \cup BareBinary
                               \cup Negated \cup InParentheses \cup NegatedRight
                               \cup OtherBoolBodies)} \cup
    {<<Sym("="), Num(<<"2">>)>>, <<Id("x"), Num(<<"2">>), Sym("=")>>,
     Assign("x", <<Sym("=")>>), Assign("x", <<Kw("let")>>)}

StatementInit ==
    /\ GenIdle
    /\ EvalIdle
    /\ PathIdle
    /\ LexIdle
    /\ BatchIdle
    /\ tokens \in LogInputs \cup AssignInputs
    /\ parse_result = NotParsed

ParseLog == tokens[1] = Id("log") /\ Statement(parse_log(tokens))

ParseAssign ==
    /\ tokens[1] \notin {Kw("let"), Kw("const"), Id("log")}
    /\ HasEquals(tokens)
    /\ Statement(parse_assign(tokens))

StatementNext == ParseLog \/ ParseAssign

SpecStatement == StatementInit /\ [][StatementNext]_vars

-----------------------------------------------------------------------------
(* Claims on parse_log and parse_assign *)

\* the node of a literal token: a Number with `.` or `,` is a float, any other
\* Number an int
LiteralOf(t) ==
    CASE t.type = "Number" -> (IF HasSeparator(t.value) THEN FloatNode(t.value)
                               ELSE IntNode(t.value))
      [] t.type = "STRING" -> StringNode(t.value)
      [] t.type = "BOOL"   -> BoolNode(t.value)

\* C26: parse_log on `log(V)` returns, raising nothing, LogNode(V) for V a
\* variable name and the LogNode that holds the literal for V a Number, a string
\* and a boolean literal.
C26_LogAcceptsEveryLiteral ==
    /\ \A n \in Names :
          (tokens = Log(<<Id(n)>>) /\ parse_result # NotParsed)
          => parse_result.ok /\ parse_result.val = LogVarNode(n)
    /\ \A v \in LiteralTokens :
          (tokens = Log(<<v>>) /\ parse_result # NotParsed)
          => parse_result.ok /\ parse_result.val = LogNode(LiteralOf(v))

\* boolean expressions of each first token, with their truth value
TruthOf ==
    {<<<<BoolTok("true"), Op("&&"), BoolTok("false")>>, "false">>,
     <<<<BoolTok("false"), Op("||"), BoolTok("true")>>, "true">>,
     <<<<Num(<<"1">>), Op("<"), Num(<<"2">>)>>, "true">>,
     <<<<Op("!"), BoolTok("true")>>, "false">>,
     <<<<Sym("("), BoolTok("true"), Sym(")")>>, "true">>,
     <<<<Sym("("), BoolTok("true"), Op("&&"), BoolTok("false"), Sym(")")>>, "false">>}

\* C27: parse_assign on `x = E`, E a boolean expression, returns the AssignNode
\* whose value is the truth value of the whole of E, whatever token E starts
\* with; an E that starts with an identifier is not taken for a reference to
\* that identifier alone.
C27_AssignHoldsWholeExpression ==
    /\ \A n \in Names : \A e \in TruthOf :
          (tokens = Assign(n, e[1]) /\ parse_result # NotParsed)
          => parse_result.ok /\ parse_result.val = AssignExprNode(n, BoolNode(<<e[2]>>))
    /\ \A n \in Names :
          (/\ tokens = Assign(n, <<Id("a"), Op("&&"), BoolTok("true")>>)
           /\ parse_result # NotParsed /\ parse_result.ok)
          => parse_result.val.expr # NullNode

\* from piece k on, the text is the declaration statement `[const] <type> name = `
DeclaresAt(line, k, name) ==
    /\ Len(line) >= k + 4
    /\ line[k] \in {"", "const "}
    /\ SubSeq(line, k + 2, k + 4) = <<" ", name, " = ">>

\* the code generated for one statement holds a declaration statement of name,
\* at its start or after a `// Warning:` comment line
EmitsDeclaration(line, name) ==
    \/ DeclaresAt(line, 1, name)
    \/ \E k \in {"constant", "variable"} : IsWarning(line, k, name) /\ DeclaresAt(line, 6, name)

\* C29: the code generated by one CodeGenerator holds at most one declaration
\* statement for each name; a declaration reported `already declared` emits none.
C29_OneDeclarationPerName ==
    \A name \in Names :
        Cardinality({j \in 1..Len(all_generated_code) :
                        EmitsDeclaration(all_generated_code[j], name)}) <= 1

-----------------------------------------------------------------------------
(* Further claims on the evaluator *)

\* C28: an eval call that raises an error leaves the Environment with the
\* bindings and the values it had before the call.
C28_FailedEvalIsAtomic ==
    [][(eval_node' # eval_node \/ eval_result' # eval_result \/ env' # env)
       => (eval_result'.err # "" => env' = env)]_vars

-----------------------------------------------------------------------------
(* Parser::parse turn by turn of its loop, on sources that stop anywhere: in *)
(* a word, in an expression, in the body of a class, of a function, of an if. *)

\* class A { let x = 1; func f() { } }
ClassText ==
    <<"c", "l", "a", "s", "s", " ", "A", " ", "{", " ", "l", "e", "t", " ", "x", " ",
      "=", " ", "1", ";", " ", "f", "u", "n", "c", " ", "f", "(", ")", " ", "{", " ",
      "}", " ", "}">>

\* func f(a, b) { return a + b; x = (2); }
FunctionText ==
    <<"f", "u", "n", "c", " ", "f", "(", "a", ",", " ", "b", ")", " ", "{", " ", "r",
      "e", "t", "u", "r", "n", " ", "a", " ", "+", " ", "b", ";", " ", "x", " ", "=",
      " ", "(", "2", ")", ";", " ", "}">>

\* if (x) { x = 0; } else { if (y) { y = -1; } }
IfText ==
    <<"i", "f", " ", "(", "x", ")", " ", "{", " ", "x", " ", "=", " ", "0", ";", " ",
      "}", " ", "e", "l", "s", "e", " ", "{", " ", "i", "f", " ", "(", "y", ")", " ",
      "{", " ", "y", " ", "=", " ", "-", "1", ";", " ", "}", " ", "}">>

Prefixes(text) == {SubSeq(text, 1, k) : k \in 0..Len(text)}

\* the sources: every prefix of the three texts, and statements that start with a
\* token no statement starts with
TruncatedSources ==
    Prefixes(ClassText) \cup Prefixes(FunctionText) \cup Prefixes(IfText) \cup
    {<<"}">>, <<")", ";">>, <<"=", "a", ";">>, <<"x", ";", "}", "x", ";">>, <<"e", "l", "s", "e">>}

LoopInit ==
    /\ GenIdle
    /\ ParseIdle
    /\ LexIdle
    /\ BatchIdle
    /\ source_code \in TruncatedSources
    /\ token_vector = NotTokenized
    /\ program = NotParsedYet
    /\ evaluated = 0
    /\ parser = ParserStart
    /\ env = [n \in PathNames |-> NoVar]
    /\ eval_node = NullNode
    /\ eval_result = [val |-> NoValue, err |-> ""]

\* parse(): the loop has ended, by its condition or by break
ParseReturn(at) ==
    /\ parser' = [parser EXCEPT !.pos = at, !.done = TRUE]
    /\ program' = ASTProgram(parser.declarations)

\* one turn of the loop of parse(): its condition, declaration(), push_back or break
ParseTurn ==
    /\ token_vector # NotTokenized
    /\ ~parser.done
    /\ IF is_at_end(token_vector, parser.pos) THEN ParseReturn(parser.pos)
       ELSE IF declaration(token_vector, parser.pos).node = NullNode
       THEN ParseReturn(declaration(token_vector, parser.pos).pos)
       ELSE /\ parser' = [parser EXCEPT
                            !.pos = declaration(token_vector, parser.pos).pos,
                            !.declarations =
                                Append(@, declaration(token_vector, parser.pos).node)]
            /\ UNCHANGED program
    /\ UNCHANGED <<genVars, evalVars, parseVars, lexVars, batchVars, source_code,
                   token_vector, evaluated>>

LoopNext == Tokenize \/ ParseTurn

\* a step of Tokenize can be taken: it changes token_vector, tokenize() ends
\* every vector with END_OF_FILE
TokenizeEnabled == token_vector = NotTokenized

\* a step of ParseTurn can be taken: it sets parser.done or appends a declaration
ParseTurnEnabled == token_vector # NotTokenized /\ ~parser.done

\* WF_vars(Tokenize) /\ WF_vars(ParseTurn), each ENABLED <<A>>_vars written as the
\* state predicate it equals: []<>~ENABLED <<A>>_vars \/ []<><<A>>_vars
LoopFairness ==
    /\ []<>(~TokenizeEnabled) \/ []<><<Tokenize>>_vars
    /\ []<>(~ParseTurnEnabled) \/ []<><<ParseTurn>>_vars

\* tokenize() and parse() are straight-line calls of one thread: each step that
\* can be taken is taken
SpecParseLoop == LoopInit /\ [][LoopNext]_vars /\ LoopFairness

-----------------------------------------------------------------------------
(* Claims on the loop of Parser::parse *)

\* the index of the END_OF_FILE token, the last of the vector
EndOfFileAt == Len(token_vector)

\* a parsing function called at p stays within the vector, and has read a token
\* when it returns a node
StaysAndConsumes(r, p) ==
    /\ r.pos <= EndOfFileAt
    /\ r.node # NullNode => r.pos > p

\* C30: Parser::parse ends on every token vector that ends with END_OF_FILE,
\* also when the source stops in the body of a class, of a function or of an if;
\* the parser's position never passes the END_OF_FILE token, and a declaration or
\* statement that is returned non-null has read at least one token.
C30_ParseTerminates ==
    /\ <>(parser.done /\ program # NotParsedYet)
    /\ [](token_vector # NotTokenized =>
            /\ parser.pos <= EndOfFileAt
            /\ \A p \in 1..EndOfFileAt :
                  /\ StaysAndConsumes(declaration(token_vector, p), p)
                  /\ StaysAndConsumes(statement(token_vector, p), p))

\* parse() has returned, without a statement, on a source that stops in a body:
\* the class's, the function's, the else branch's
C30_Witness ==
    /\ parser.done
    /\ program = ASTProgram(<<>>)
    /\ parser.pos = EndOfFileAt
    /\ \/ source_code = SubSeq(ClassText, 1, 20)
       \/ source_code = SubSeq(FunctionText, 1, 28)
       \/ source_code = SubSeq(IfText, 1, 24)

====
